---- MODULE Spec2Model ----
(***************************************************************************)
(* The resumable fetch-and-ingest pipeline of hn-sql: the `fetch` command  *)
(* (cli.py, _fetch), the HNFetcher (fetcher.py), the CheckpointManager     *)
(* (checkpoint.py) and the ParquetWriter (writer.py).                      *)
(*                                                                         *)
(* Scheduling.  The program is a single asyncio event loop.  The main      *)
(* coroutine _fetch runs without interruption between two of its awaits;   *)
(* fetch tasks and the SIGINT callback (loop.add_signal_handler) run only  *)
(* while _fetch is suspended in an await.  The model keeps this: task      *)
(* steps and the Signal step are enabled only in the program counters of   *)
(* Suspended.  A KeyboardInterrupt (platforms where add_signal_handler is  *)
(* not implemented) is raised inside the synchronous code of _fetch.       *)
(***************************************************************************)
EXTENDS Integers, Sequences, FiniteSets, TLC

(* ------------------------------- bounds ------------------------------- *)
\* the remote's max item id (maxitem.json)
MaxItemId == 4
\* largest --concurrency the model runs with
MaxConcurrency == 2
\* largest --batch-size the model runs with
MaxBatchSize == 3
\* how many failing responses (timeout / HTTP error status) the remote
\* gives during one run: in the runs of Spec, and in the runs of SpecFetcher
RunFaults == 1
MaxFaults == 4

(* -------------------------- program constants ------------------------- *)
\* fetcher.py:95  for attempt in range(3)
RETRIES == 3

\* ParquetWriter._buffer_size is 50,000 rows (writer.py:34); the model runs
\* the same code with a threshold its batches can reach
BufferSize == 2

\* --start 0 makes id 0 the first id of the range
Ids == 0..MaxItemId

\* What the remote holds at an id: an item, a JSON null (deleted item,
\* answered 200), or nothing (answered 404).
RemoteKind(id) ==
    CASE id % 5 = 2 -> "notfound"
      [] id % 5 = 0 -> "null"
      [] OTHER      -> "item"

HasData(id) == RemoteKind(id) = "item"

\* The year=YYYY/month=MM an item's "time" falls in; "" for an item that has
\* no "time".
RemoteYm(id) ==
    CASE id % 5 = 1 -> "2024-01"
      [] id % 5 = 3 -> "2024-02"
      [] OTHER      -> ""

Partitions == {"2024-01", "2024-02"}

VARIABLES
    opt,              \* the command line: concurrency, batch_size, resume, start, end
    pc,               \* where _fetch is
    phase,            \* which flush/save sequence _fetch is in
    api_max_id,       \* cli.py:77
    max_id,           \* cli.py:81
    current_pos,      \* cli.py:131
    batch_end,        \* cli.py:133
    batch_items,      \* cli.py:139
    checkpoint,       \* the Checkpoint object of the run
    checkpoint_file,  \* checkpoint.json on disk
    partition_style,  \* ParquetWriter.partition_style
    buffer,           \* ParquetWriter._buffer
    chunks,           \* outdir/chunk-NNNNN.parquet, in number order
    hive,             \* outdir/year=Y/month=M/data-NNNNN.parquet, per partition
    semaphore,        \* HNFetcher.semaphore: free permits
    shutdown,         \* HNFetcher._shutdown
    shutdown_event,   \* the asyncio.Event set by the SIGINT handler
    client,           \* HNFetcher._client: "none" or "open"
    pending_tasks,    \* HNFetcher._pending_tasks
    task,             \* the fetch_one task of each id
    completed,        \* asyncio.as_completed's queue of finished tasks
    gen_left,         \* iterations the as_completed loop of fetch_items has left
    active_connections, \* MatrixProgress.state.active_connections
    faults,           \* failing responses the remote may still give
    requested,        \* history: ids a physical item request was issued for
    first_req,        \* history: the first id requested (0: none yet)
    last_op,          \* history: the writer's last call: "none", "add", "flush"
    batch_ids,        \* history: the id range of the batch that was cut short
    file0,            \* history: checkpoint.json as the command found it
    yielded,          \* history: the ids fetch_items has yielded pairs for, in order
    clients,          \* history: httpx.AsyncClient objects created and not closed
    mpc,              \* where migrate is ("idle": migrate is not running)
    mopt,             \* migrate's command line: swap, dry_run, yes
    old_dir,          \* data/items: whether it exists, and its hn.parquet
    new_dir,          \* data/items_v2
    backup_dir,       \* data/items_old
    total_items,      \* cli.py:442  the plan's count (-1: no plan yet)
    mfaults,          \* failing file-system or query steps migrate may still meet
    dir0,             \* history: data/items as the command found it
    item,             \* the payload item_to_row is called on
    row               \* the row item_to_row returned

cliVars     == <<opt, pc, phase, api_max_id, max_id, current_pos, batch_end, batch_items>>
cpVars      == <<checkpoint, checkpoint_file>>
writerVars  == <<partition_style, buffer, chunks, hive>>
fetcherVars == <<semaphore, shutdown, shutdown_event, client, pending_tasks, task,
                 completed, gen_left, active_connections>>
histVars    == <<faults, requested, first_req, last_op, batch_ids, file0>>
rowVars     == <<item, row>>
migrateVars == <<mpc, mopt, old_dir, new_dir, backup_dir, total_items, mfaults, dir0>>
vars        == <<cliVars, cpVars, writerVars, fetcherVars, histVars, yielded, clients,
                 rowVars, migrateVars>>

(* ----------------------------- checkpoint ----------------------------- *)
\* Checkpoint (started_at / updated_at are wall-clock strings no decision
\* reads; they are left out).
Cp(last, max, fetched, written, style) ==
    [last_fetched_id |-> last, max_item_id |-> max, items_fetched |-> fetched,
     items_written |-> written, partition_style |-> style]

\* Checkpoint.new
CpNew(max, style) == Cp(0, max, 0, 0, style)

\* mutant of CpUpdate: the progress mark is the number of items of the batch
CpUpdateCounts(cp, last_id, fetched, written) ==
    [cp EXCEPT !.last_fetched_id = fetched,
               !.items_fetched = @ + fetched,
               !.items_written = @ + written]

\* Checkpoint.update
CpUpdate(cp, last_id, fetched, written) ==
    [cp EXCEPT !.last_fetched_id = last_id,
               !.items_fetched = @ + fetched,
               !.items_written = @ + written]

NoCp == [kind |-> "none"]

\* The file: absent, empty (opened for writing, nothing written yet), one
\* the process may not read (read_text raises PermissionError), or a JSON
\* object; has_style tells whether the object has a partition_style key.
FileAbsent == [kind |-> "absent"]
FileEmpty  == [kind |-> "empty"]
FileUnreadable == [kind |-> "unreadable"]
FileJson(cp, has_style) == [kind |-> "json", cp |-> cp, has_style |-> has_style]

\* mutant of CpExists: a file that holds nothing counts as no file
CpExistsWithContent(f) == f.kind = "json"

\* CheckpointManager.exists
CpExists(f) == f.kind # "absent"

\* read_text and json.loads succeed
CpParses(f) == f.kind = "json"

\* mutant of CpLoad: a record without partition_style loads as the new layout
CpLoadFlat(f) ==
    IF f.has_style THEN f.cp ELSE [f.cp EXCEPT !.partition_style = "flat"]

\* CheckpointManager.load on a file that parses: setdefault("partition_style", "hive")
CpLoad(f) ==
    IF f.has_style THEN f.cp ELSE [f.cp EXCEPT !.partition_style = "hive"]

\* asdict + json.dumps: the object written always carries partition_style
CpDump(cp) == FileJson(cp, TRUE)

(* ------------------------------ fetcher ------------------------------- *)
\* mutant of IsShutdown: the external event is not consulted
IsShutdownFlagOnly == shutdown

\* HNFetcher._is_shutdown (the run always passes its shutdown_event)
IsShutdown == shutdown \/ shutdown_event

\* _fetch is suspended in an await: the event loop runs tasks and callbacks
Suspended == pc \in {"get_max", "await"}

\* A fetch_one task: pc is where it is, attempt the number of retries it has
\* begun (0: the first request), delay its last backoff sleep in units of
\* 0.5 s, why the reason it ended.
\*   new        created, has not run yet
\*   gate       waiting in `async with self.semaphore`
\*   req        awaiting self._client.get (holds a permit)
\*   sleep      in asyncio.sleep before a retry (holds a permit)
\*   done_item / done_none   fetch_item returned an item / None
\*   raised     fetch_item raised an HTTPStatusError
\*   cancelled  the task ended with CancelledError
Task(p, a, d, w) == [pc |-> p, attempt |-> a, delay |-> d, why |-> w]
NoTask  == Task("none", 0, 0, "")
NewTask == Task("new", 0, 0, "")

Ended(t) == t.pc \in {"done_item", "done_none", "raised", "cancelled"}
Live(t)  == t.pc \in {"new", "gate", "req", "sleep"}
HoldsPermit(t) == t.pc \in {"req", "sleep"}

\* the task ends: its state, and its place in as_completed's queue
End(i, p, w) ==
    /\ task' = [task EXCEPT ![i] = Task(p, @.attempt, @.delay, w)]
    /\ completed' = Append(completed, i)

\* mutant of Backoff: the same wait before every retry
BackoffFlat(attempt) == 1

\* 0.5 * (attempt + 1), attempt the index of `for attempt in range(3)`,
\* in units of 0.5 s
Backoff(attempt) == attempt + 1

\* mutant of ConnectionEnded: the end event does not reach the counter
ConnectionEndedLost(n) == n

\* MatrixProgress.connection_started / connection_ended
ConnectionStarted(n) == n + 1
ConnectionEnded(n) == IF n - 1 > 0 THEN n - 1 ELSE 0

\* self._client.get is awaited: a physical request is out
Request(i, a) ==
    /\ task' = [task EXCEPT ![i] = Task("req", a, @.delay, "")]
    /\ requested' = requested \cup {i}
    /\ first_req' = IF first_req = 0 THEN i ELSE first_req

\* the semaphore admits waiters in arrival order, which is id order
Waiters == {j \in Ids : task[j].pc = "gate"}
FirstWaiter(i) == i \in Waiters /\ \A j \in Waiters : i <= j

\* mutant of Locked: the gate admits everybody
NeverLocked == FALSE

\* asyncio.Semaphore.locked(): no free permit, or somebody is waiting
Locked == semaphore = 0 \/ Waiters # {}

\* fetch_item up to its first await (lines 76-84), in a task that runs for
\* the first time.  Tasks first run in creation order.
FetchOneStart(i) ==
    /\ Suspended
    /\ task[i].pc = "new"
    /\ \A j \in Ids : j < i => task[j].pc # "new"
    /\ IF IsShutdown
       THEN /\ End(i, "done_none", "shutdown")
            /\ UNCHANGED <<semaphore, active_connections, requested, first_req>>
       ELSE IF ~Locked
       THEN /\ Request(i, 0)
            /\ semaphore' = semaphore - 1
            /\ active_connections' = ConnectionStarted(active_connections)
            /\ UNCHANGED completed
       ELSE /\ task' = [task EXCEPT ![i] = Task("gate", 0, 0, "")]
            /\ UNCHANGED <<semaphore, active_connections, requested, first_req, completed>>
    /\ UNCHANGED <<cliVars, cpVars, writerVars, shutdown, shutdown_event, client,
                   pending_tasks, gen_left, faults, last_op, batch_ids, file0>>
    /\ UNCHANGED <<yielded, clients, rowVars, migrateVars>>

\* a waiter gets a permit (lines 78-84)
Admit(i) ==
    /\ Suspended
    /\ FirstWaiter(i)
    /\ semaphore > 0
    /\ IF IsShutdown
       THEN /\ End(i, "done_none", "shutdown")
            /\ UNCHANGED <<semaphore, active_connections, requested, first_req>>
       ELSE /\ Request(i, 0)
            /\ semaphore' = semaphore - 1
            /\ active_connections' = ConnectionStarted(active_connections)
            /\ UNCHANGED completed
    /\ UNCHANGED <<cliVars, cpVars, writerVars, shutdown, shutdown_event, client,
                   pending_tasks, gen_left, faults, last_op, batch_ids, file0>>
    /\ UNCHANGED <<yielded, clients, rowVars, migrateVars>>

\* mutant of Leave: the permit is not given back
LeaveWithPermit ==
    /\ semaphore' = semaphore
    /\ active_connections' = ConnectionEnded(active_connections)

\* leaving `async with self.semaphore` through the finally of line 109
Leave ==
    /\ semaphore' = semaphore + 1
    /\ active_connections' = ConnectionEnded(active_connections)

\* the response is 200: resp.json() is the item, or None for a JSON null
\* (lines 84-86 and 100-102)
ResponseOk(i) ==
    /\ Suspended
    /\ task[i].pc = "req"
    /\ client = "open"
    /\ RemoteKind(i) \in {"item", "null"}
    /\ IF RemoteKind(i) = "item"
       THEN End(i, "done_item", "ok")
       ELSE End(i, "done_none", "null")
    /\ Leave
    /\ UNCHANGED <<cliVars, cpVars, writerVars, shutdown, shutdown_event, client,
                   pending_tasks, gen_left, histVars>>
    /\ UNCHANGED <<yielded, clients, rowVars, migrateVars>>

\* the response is 404: raise_for_status raises HTTPStatusError.  In the
\* first attempt line 87 catches it; in a retry the request is inside the
\* handler of line 91, whose try only catches the transient errors.
ResponseNotFound(i) ==
    /\ Suspended
    /\ task[i].pc = "req"
    /\ client = "open"
    /\ RemoteKind(i) = "notfound"
    /\ IF task[i].attempt = 0
       THEN End(i, "done_none", "404")
       ELSE End(i, "raised", "404")
    /\ Leave
    /\ UNCHANGED <<cliVars, cpVars, writerVars, shutdown, shutdown_event, client,
                   pending_tasks, gen_left, histVars>>
    /\ UNCHANGED <<yielded, clients, rowVars, migrateVars>>

\* the response is another error status (5xx): line 90 re-raises, and in a
\* retry nothing catches it
ResponseHttpError(i) ==
    /\ Suspended
    /\ task[i].pc = "req"
    /\ client = "open"
    /\ faults > 0
    /\ faults' = faults - 1
    /\ End(i, "raised", "500")
    /\ Leave
    /\ UNCHANGED <<cliVars, cpVars, writerVars, shutdown, shutdown_event, client,
                   pending_tasks, gen_left, requested, first_req, last_op, batch_ids, file0>>
    /\ UNCHANGED <<yielded, clients, rowVars, migrateVars>>

\* TimeoutException, ReadError or ConnectError (lines 91-105)
ResponseTransient(i) ==
    /\ Suspended
    /\ task[i].pc = "req"
    /\ client = "open"
    /\ faults > 0
    /\ faults' = faults - 1
    /\ IF task[i].attempt = 0 /\ IsShutdown
       THEN End(i, "done_none", "shutdown") /\ Leave
       ELSE IF task[i].attempt < RETRIES
       THEN /\ task' = [task EXCEPT ![i] =
                           Task("sleep", @.attempt + 1, Backoff(@.attempt), "")]
            /\ UNCHANGED <<completed, semaphore, active_connections>>
       ELSE End(i, "done_none", "giveup") /\ Leave
    /\ UNCHANGED <<cliVars, cpVars, writerVars, shutdown, shutdown_event, client,
                   pending_tasks, gen_left, requested, first_req, last_op, batch_ids, file0>>
    /\ UNCHANGED <<yielded, clients, rowVars, migrateVars>>

\* asyncio.sleep returns (lines 96-100)
Wake(i) ==
    /\ Suspended
    /\ task[i].pc = "sleep"
    /\ IF IsShutdown
       THEN /\ End(i, "done_none", "shutdown")
            /\ Leave
            /\ UNCHANGED <<requested, first_req>>
       ELSE /\ Request(i, task[i].attempt)
            /\ UNCHANGED <<completed, semaphore, active_connections>>
    /\ UNCHANGED <<cliVars, cpVars, writerVars, shutdown, shutdown_event, client,
                   pending_tasks, gen_left, faults, last_op, batch_ids, file0>>
    /\ UNCHANGED <<yielded, clients, rowVars, migrateVars>>

\* mutant of Cancelled: task.cancel() has no effect
NotCancelled(t) == t

\* task.cancel() on one task: CancelledError is thrown in at its await.
\* In the first request line 106 catches it and fetch_item returns None;
\* at the gate, in a retry request and in a backoff sleep it propagates.
Cancelled(t) ==
    CASE t.pc \in {"new", "gate"} -> Task("cancelled", t.attempt, t.delay, "cancel")
      [] t.pc = "req" /\ t.attempt = 0 -> Task("done_none", t.attempt, t.delay, "cancel")
      [] t.pc \in {"req", "sleep"} -> Task("cancelled", t.attempt, t.delay, "cancel")
      [] OTHER -> t

\* mutant of ClosesClient: aclose is called whether or not there is a client
ClosesAlways == TRUE

\* fetcher.py:64  if self._client
ClosesClient == client = "open"

\* HNFetcher.shutdown (lines 53-66): every pending task that has not ended is
\* cancelled and awaited, the set is cleared, the client is closed.
CancelPending ==
    LET hit == {i \in pending_tasks : Live(task[i])}
        freed == Cardinality({i \in hit : HoldsPermit(task[i])})
    IN  /\ task' = [i \in Ids |-> IF i \in hit THEN Cancelled(task[i]) ELSE task[i]]
        /\ semaphore' = semaphore + freed
        /\ active_connections' =
              IF active_connections - freed > 0 THEN active_connections - freed ELSE 0
        /\ shutdown' = TRUE
        /\ pending_tasks' = {}
        /\ client' = "none"
        /\ clients' = IF ClosesClient THEN clients - 1 ELSE clients

(* ----------------------------- item_to_row ---------------------------- *)
\* A payload is a record of the keys item_to_row reads.  Every value is
\* written as a string: "None" is a key that is missing or null, "True" and
\* "False" the booleans, "0" and "1" the integers, "T" a timestamp other than
\* 0, "yes" a string, "x" some value of the field's own type.
NoItem == [id |-> "None"]
NoRow  == [id |-> "no row"]

CopiedFields == {"text", "url", "title", "score", "descendants", "kids", "poll", "parts"}

\* mutant of IsFlag: only the boolean counts
IsTrue(v) == v = "True"

\* schema.py:51-52  `dead is True or dead == 1`
IsFlag(v) == v \in {"True", "1"}

\* schema.py:45-46  fromtimestamp(ts) if ts else None: 0 is falsy
Timestamp(ts) == IF ts \in {"None", "0"} THEN "None" ELSE "dt(" \o ts \o ")"

\* schema.py:33-96; year and month are keys of the row only with
\* include_partitions, and are "" in this record without it
item_to_row(it, include_partitions) ==
    LET dt == Timestamp(it.time)
        is_dead == IsFlag(it.dead)
        is_deleted == IsFlag(it.deleted)
        minimal == is_deleted \/ is_dead
        Get(f) == IF minimal THEN "None" ELSE it[f]
    IN  [id |-> it.id, type |-> it.type, by |-> it.by, time |-> dt,
         text |-> Get("text"), url |-> Get("url"), title |-> Get("title"),
         score |-> Get("score"), descendants |-> Get("descendants"),
         parent |-> it.parent, kids |-> Get("kids"),
         dead |-> IF is_dead THEN "True" ELSE "False",
         deleted |-> IF is_deleted THEN "True" ELSE "False",
         poll |-> Get("poll"), parts |-> Get("parts"),
         year |-> IF ~include_partitions THEN ""
                  ELSE IF dt = "None" THEN "None" ELSE "year(" \o dt \o ")",
         month |-> IF ~include_partitions THEN ""
                   ELSE IF dt = "None" THEN "None" ELSE "month(" \o dt \o ")"]

(* ------------------------------- writer ------------------------------- *)
\* item_to_row: the row of the item at id i; ym is its year/month columns,
\* "" when the item has no time or the columns are not included
ItemToRow(i, include_partitions) ==
    [id |-> i, ym |-> IF include_partitions THEN RemoteYm(i) ELSE ""]

\* the rows of a sequence that fall in partition p, in order
RECURSIVE RowsOf(_, _)
RowsOf(rows, p) ==
    IF rows = <<>> THEN <<>>
    ELSE IF Head(rows).ym = p THEN <<Head(rows)>> \o RowsOf(Tail(rows), p)
    ELSE RowsOf(Tail(rows), p)

\* mutant of NextNum: the count is not taken, every flush writes chunk-00000
NextNumZero(files) == 0

\* writer.py:69-70  next_num = len(glob("chunk-*.parquet")); files is the
\* sequence of the chunk files in number order: files[k] is chunk number k - 1
NextNum(files) == Len(files)

\* pq.write_table at the path numbered n: the file is created, or an
\* existing file with that number is replaced
WriteFile(files, n, rows) ==
    [k \in 1..(IF n + 1 > Len(files) THEN n + 1 ELSE Len(files)) |->
        IF k = n + 1 THEN rows ELSE files[k]]

\* ParquetWriter._flush_flat: a new file numbered by the count of chunk files
FlushFlat(w) == [w EXCEPT !.chunks = WriteFile(@, NextNum(@), w.buffer)]

\* mutant of FlushHive: rows without year and month go to the first directory
FlushHiveUndated(w) ==
    [w EXCEPT !.hive = [p \in Partitions |->
        LET rs == SelectSeq(w.buffer, LAMBDA r : r.ym = p \/ (p = "2024-01" /\ r.ym = ""))
        IN  IF rs = <<>> THEN w.hive[p] ELSE Append(w.hive[p], rs)]]

\* ParquetWriter._flush_hive: one new file in every partition that has rows;
\* rows whose year or month is None are in no group
FlushHive(w) ==
    [w EXCEPT !.hive = [p \in Partitions |->
                          IF RowsOf(w.buffer, p) = <<>> THEN w.hive[p]
                          ELSE Append(w.hive[p], RowsOf(w.buffer, p))]]

\* ParquetWriter._flush; w is the writer with the directory it writes into
Flush(w) ==
    IF w.buffer = <<>> THEN w
    ELSE [(IF w.style = "hive" THEN FlushHive(w) ELSE FlushFlat(w))
             EXCEPT !.buffer = <<>>]

\* mutant of BufferFull: the flush waits for one row more than the threshold
BufferOverfull(n) == n > BufferSize

\* writer.py:46  len(self._buffer) >= self._buffer_size
BufferFull(n) == n >= BufferSize

\* ParquetWriter.add_item
AddItem(w, i) ==
    LET w1 == [w EXCEPT !.buffer = Append(@, ItemToRow(i, w.style = "hive"))]
    IN  IF BufferFull(Len(w1.buffer)) THEN Flush(w1) ELSE w1

\* ParquetWriter.add_items
RECURSIVE AddItems(_, _)
AddItems(w, items) ==
    IF items = <<>> THEN w ELSE AddItems(AddItem(w, Head(items)), Tail(items))

\* mutant of FlushAllOf: flush_all writes only a buffer that is full
FlushAllWhenFull(w) == IF BufferFull(Len(w.buffer)) THEN Flush(w) ELSE w

\* mutant of FlushAllOf: flush_all writes nothing
FlushAllOfNothing(w) == w

\* ParquetWriter.flush_all
FlushAllOf(w) == Flush(w)

Writer == [style |-> partition_style, buffer |-> buffer, chunks |-> chunks, hive |-> hive]

SetWriter(w) ==
    /\ buffer' = w.buffer
    /\ chunks' = w.chunks
    /\ hive' = w.hive
    /\ UNCHANGED partition_style

\* the ids of the rows in the archive directory, both layouts
RECURSIVE IdsOfRows(_)
IdsOfRows(rows) ==
    IF rows = <<>> THEN {} ELSE {Head(rows).id} \cup IdsOfRows(Tail(rows))

RECURSIVE IdsOfFiles(_)
IdsOfFiles(files) ==
    IF files = <<>> THEN {} ELSE IdsOfRows(Head(files)) \cup IdsOfFiles(Tail(files))

OnDisk == IdsOfFiles(chunks) \cup UNION {IdsOfFiles(hive[p]) : p \in Partitions}

(* ------------------------------- _fetch ------------------------------- *)
\* mutant of Min: the batch is not cut at the target max
MinOfFirst(a, b) == a

Min(a, b) == IF a < b THEN a ELSE b
Max(a, b) == IF a > b THEN a ELSE b

\* range(current_pos, batch_end)
BatchIds == {i \in Ids : current_pos <= i /\ i < batch_end}

\* cli.py:75  async with HNFetcher(...)  ->  HNFetcher.__aenter__
Aenter ==
    /\ pc = "start"
    /\ client' = "open"
    /\ clients' = clients + 1
    /\ shutdown' = FALSE
    /\ pc' = "get_max"
    /\ UNCHANGED <<opt, phase, api_max_id, max_id, current_pos, batch_end, batch_items,
                   cpVars, writerVars, semaphore, shutdown_event, pending_tasks, task,
                   completed, gen_left, active_connections, histVars>>
    /\ UNCHANGED <<yielded, rowVars, migrateVars>>

\* cli.py:77-81  get_max_item_id answers
GetMaxItemId ==
    /\ pc = "get_max"
    /\ api_max_id' = MaxItemId
    /\ max_id' = IF opt.has_end THEN opt.end ELSE MaxItemId
    /\ pc' = "resolve"
    /\ UNCHANGED <<opt, phase, current_pos, batch_end, batch_items,
                   cpVars, writerVars, fetcherVars, histVars>>
    /\ UNCHANGED <<yielded, clients, rowVars, migrateVars>>

\* mutant of GetMaxItemIdFails: the request is made again after a failure
GetMaxItemIdRetries ==
    /\ pc = "get_max"
    /\ faults > 0
    /\ faults' = faults - 1
    /\ UNCHANGED <<cliVars, cpVars, writerVars, fetcherVars, requested, first_req, last_op,
                   batch_ids, file0>>
    /\ UNCHANGED <<yielded, clients, rowVars, migrateVars>>

\* cli.py:77  get_max_item_id raises (transport failure or error status)
GetMaxItemIdFails ==
    /\ pc = "get_max"
    /\ faults > 0
    /\ faults' = faults - 1
    /\ pc' = "raise"
    /\ UNCHANGED <<opt, phase, api_max_id, max_id, current_pos, batch_end, batch_items,
                   cpVars, writerVars, fetcherVars, requested, first_req, last_op,
                   batch_ids, file0>>
    /\ UNCHANGED <<yielded, clients, rowVars, migrateVars>>

\* cli.py:85-88  existing_style; None is ""
ExistingStyle == IF CpExists(checkpoint_file) THEN CpLoad(checkpoint_file).partition_style ELSE ""

\* mutant of StyleOrHive: the existing style is not carried over
AlwaysHive(style) == "hive"

\* existing_style or "hive"
StyleOrHive(style) == IF style = "" THEN "hive" ELSE style

\* mutant of StartId: a checkpoint to resume from wins over --start
StartIdResumeFirst ==
    IF opt.resume /\ CpExists(checkpoint_file)
    THEN CpLoad(checkpoint_file).last_fetched_id + 1
    ELSE IF opt.has_start
    THEN IF opt.start < 0 THEN Max(1, api_max_id + opt.start) ELSE opt.start
    ELSE 1

\* mutant of StartId: a resume starts at last_fetched_id
StartIdAtLast ==
    IF opt.has_start
    THEN IF opt.start < 0 THEN Max(1, api_max_id + opt.start) ELSE opt.start
    ELSE IF opt.resume /\ CpExists(checkpoint_file)
    THEN CpLoad(checkpoint_file).last_fetched_id
    ELSE 1

\* cli.py:90-107  the start id
StartId ==
    IF opt.has_start
    THEN IF opt.start < 0 THEN Max(1, api_max_id + opt.start) ELSE opt.start
    ELSE IF opt.resume /\ CpExists(checkpoint_file)
    THEN CpLoad(checkpoint_file).last_fetched_id + 1
    ELSE 1

\* mutant of StartCheckpoint: a run with --start keeps the record it found
StartCheckpointLoaded ==
    IF CpExists(checkpoint_file)
    THEN [CpLoad(checkpoint_file) EXCEPT !.max_item_id = max_id]
    ELSE CpNew(max_id, "hive")

\* cli.py:90-107  the checkpoint of the run
StartCheckpoint ==
    IF opt.has_start
    THEN CpNew(max_id, StyleOrHive(ExistingStyle))
    ELSE IF opt.resume /\ CpExists(checkpoint_file)
    THEN [CpLoad(checkpoint_file) EXCEPT !.max_item_id = max_id]
    ELSE CpNew(max_id, StyleOrHive(ExistingStyle))

\* cli.py:83-131  a checkpoint file that cannot be read or parsed makes load raise
ResolveStart ==
    /\ pc = "resolve"
    /\ IF CpExists(checkpoint_file) /\ ~CpParses(checkpoint_file)
       THEN /\ pc' = "raise"
            /\ UNCHANGED <<checkpoint, partition_style, current_pos>>
       ELSE /\ checkpoint' = StartCheckpoint
            /\ partition_style' = StartCheckpoint.partition_style
            /\ current_pos' = StartId
            /\ pc' = "loop"
    /\ UNCHANGED <<opt, phase, api_max_id, max_id, batch_end, batch_items,
                   checkpoint_file, buffer, chunks, hive, fetcherVars, histVars>>
    /\ UNCHANGED <<yielded, clients, rowVars, migrateVars>>

\* cli.py:132-140 and fetcher.py:126-128  the loop test; a batch begins and
\* fetch_items creates its tasks
LoopHead ==
    /\ pc = "loop"
    /\ IF current_pos <= max_id /\ ~shutdown_event
       THEN LET be == Min(current_pos + opt.batch_size, max_id + 1)
                ids == {i \in Ids : current_pos <= i /\ i < be}
            IN  /\ batch_end' = be
                /\ batch_items' = <<>>
                /\ task' = [i \in Ids |-> IF i \in ids THEN NewTask
                                          ELSE IF Live(task[i]) THEN task[i]
                                          ELSE NoTask]
                /\ pending_tasks' = pending_tasks \cup ids
                /\ completed' = <<>>
                /\ gen_left' = Cardinality(ids)
                /\ yielded' = <<>>
                /\ pc' = "iter"
       ELSE /\ pc' = "after_loop"
            /\ UNCHANGED <<batch_end, batch_items, task, pending_tasks, completed,
                           gen_left, yielded>>
    /\ UNCHANGED <<opt, phase, api_max_id, max_id, current_pos, cpVars, writerVars,
                   semaphore, shutdown, shutdown_event, client, active_connections,
                   histVars>>
    /\ UNCHANGED <<clients, rowVars, migrateVars>>

\* mutant of Yield: the result of the task is swallowed
YieldNothing(j) == yielded

\* fetcher.py:136-137  yield result
Yield(j) == Append(yielded, j)

\* mutant of ConsumerBreaks: _fetch leaves the iteration after the first pair
ConsumerBreaksAlways == TRUE

\* mutant of ConsumerBreaks: the loop of _fetch goes on consuming
ConsumerGoesOn == FALSE

\* cli.py:141-142  _fetch leaves its `async for` when the event is set
ConsumerBreaks == shutdown_event

\* fetcher.py:135-139 and cli.py:140-147: the next finished task j is awaited.
\* An item or None is yielded to the loop of _fetch, which breaks when the
\* event is set; an error is raised through fetch_items, whose finally drops
\* the batch's tasks from _pending_tasks.
Deliver(j) ==
    /\ completed' = Tail(completed)
    /\ gen_left' = gen_left - 1
    /\ IF task[j].pc = "raised"
       THEN /\ pc' = "raise"
            /\ pending_tasks' = pending_tasks \ BatchIds
            /\ UNCHANGED <<batch_items, batch_ids, file0, yielded>>
       ELSE IF task[j].pc = "cancelled"
       THEN /\ pc' = "iter"
            /\ UNCHANGED <<batch_items, batch_ids, pending_tasks, file0, yielded>>
       ELSE /\ yielded' = Yield(j)
            /\ IF ConsumerBreaks
               THEN /\ pc' = "add_items"
                    /\ batch_ids' = BatchIds
                    /\ UNCHANGED <<batch_items, pending_tasks, file0>>
               ELSE /\ batch_items' = IF task[j].pc = "done_item"
                                       THEN Append(batch_items, j) ELSE batch_items
                    /\ pc' = "iter"
                    /\ UNCHANGED <<batch_ids, pending_tasks, file0>>
    /\ UNCHANGED <<opt, phase, api_max_id, max_id, current_pos, batch_end, cpVars,
                   writerVars, semaphore, shutdown, shutdown_event, client, task,
                   active_connections, faults, requested, first_req, last_op>>

\* fetcher.py:132-136  the top of the as_completed loop
AsCompletedNext ==
    /\ pc = "iter"
    /\ IF gen_left = 0 \/ IsShutdown
       THEN /\ pc' = "add_items"
            /\ pending_tasks' = pending_tasks \ BatchIds
            /\ task' = [i \in Ids |-> IF Live(task[i]) THEN task[i] ELSE NoTask]
            /\ UNCHANGED <<opt, phase, api_max_id, max_id, current_pos, batch_end,
                           batch_items, cpVars, writerVars, semaphore, shutdown,
                           shutdown_event, client, completed, gen_left,
                           active_connections, histVars, yielded>>
       ELSE IF completed # <<>>
       THEN Deliver(Head(completed))
       ELSE /\ pc' = "await"
            /\ UNCHANGED <<opt, phase, api_max_id, max_id, current_pos, batch_end,
                           batch_items, cpVars, writerVars, fetcherVars, histVars,
                           yielded>>
    /\ UNCHANGED <<clients, rowVars, migrateVars>>

\* fetcher.py:136  `await coro` resumes
AwaitCoro ==
    /\ pc = "await"
    /\ completed # <<>>
    /\ Deliver(Head(completed))
    /\ UNCHANGED <<clients, rowVars, migrateVars>>

\* cli.py:149-150
AddItemsStep ==
    /\ pc = "add_items"
    /\ SetWriter(AddItems(Writer, batch_items))
    /\ last_op' = IF batch_items # <<>> THEN "add" ELSE last_op
    /\ pc' = "update"
    /\ UNCHANGED <<opt, phase, api_max_id, max_id, current_pos, batch_end, batch_items,
                   cpVars, fetcherVars, faults, requested, first_req, batch_ids, file0>>
    /\ UNCHANGED <<yielded, clients, rowVars, migrateVars>>

\* cli.py:153
CheckpointUpdate ==
    /\ pc = "update"
    /\ checkpoint' = CpUpdate(checkpoint, batch_end - 1, Len(batch_items), Len(batch_items))
    /\ pc' = "flush"
    /\ UNCHANGED <<opt, phase, api_max_id, max_id, current_pos, batch_end, batch_items,
                   checkpoint_file, writerVars, fetcherVars, histVars>>
    /\ UNCHANGED <<yielded, clients, rowVars, migrateVars>>

\* cli.py:154, 165, 170, 179  writer.flush_all()
FlushAll ==
    /\ pc = "flush"
    /\ SetWriter(FlushAllOf(Writer))
    /\ last_op' = "flush"
    /\ pc' = "save"
    /\ UNCHANGED <<opt, phase, api_max_id, max_id, current_pos, batch_end, batch_items,
                   cpVars, fetcherVars, faults, requested, first_req, batch_ids, file0>>
    /\ UNCHANGED <<yielded, clients, rowVars, migrateVars>>

\* checkpoint.py:64  write_text opens the file for writing, which creates or
\* truncates it
SaveOpen ==
    /\ pc = "save"
    /\ checkpoint_file' = FileEmpty
    /\ pc' = "save_write"
    /\ UNCHANGED <<opt, phase, api_max_id, max_id, current_pos, batch_end, batch_items,
                   checkpoint, writerVars, fetcherVars, histVars>>
    /\ UNCHANGED <<yielded, clients, rowVars, migrateVars>>

\* checkpoint.py:64  the text is written and the file closed; then
\* cli.py:157 in the loop, or the end of the `async with` block
SaveWrite ==
    /\ pc = "save_write"
    /\ checkpoint_file' = CpDump(checkpoint)
    /\ IF phase = "batch"
       THEN current_pos' = batch_end /\ pc' = "loop"
       ELSE pc' = "aexit" /\ UNCHANGED current_pos
    /\ UNCHANGED <<opt, phase, api_max_id, max_id, batch_end, batch_items,
                   checkpoint, writerVars, fetcherVars, histVars>>
    /\ UNCHANGED <<yielded, clients, rowVars, migrateVars>>

\* the process dies between the two steps of a save
Crash ==
    /\ pc = "save_write"
    /\ pc' = "crashed"
    /\ UNCHANGED <<opt, phase, api_max_id, max_id, current_pos, batch_end, batch_items,
                   cpVars, writerVars, fetcherVars, histVars>>
    /\ UNCHANGED <<yielded, clients, rowVars, migrateVars>>

\* cli.py:160-170  after the loop
AfterLoop ==
    /\ pc = "after_loop"
    /\ IF shutdown_event
       THEN phase' = "interrupted" /\ CancelPending
       ELSE phase' = "final" /\ UNCHANGED <<semaphore, shutdown, client, pending_tasks,
                                            task, active_connections, clients>>
    /\ pc' = "flush"
    /\ UNCHANGED <<opt, api_max_id, max_id, current_pos, batch_end, batch_items,
                   cpVars, writerVars, shutdown_event, completed, gen_left, histVars>>
    /\ UNCHANGED <<yielded, rowVars, migrateVars>>

\* cli.py:173-178  KeyboardInterrupt raised in the code of _fetch inside the
\* try, where SIGINT has no handler
KeyboardInterrupt ==
    /\ ~opt.sig
    /\ pc \in {"loop", "iter", "add_items", "update", "flush", "save", "after_loop"}
    /\ phase # "ki"
    /\ phase' = "ki"
    /\ CancelPending
    /\ pc' = "flush"
    /\ batch_ids' = IF pc = "iter" THEN BatchIds ELSE batch_ids
    /\ UNCHANGED <<opt, api_max_id, max_id, current_pos, batch_end, batch_items,
                   cpVars, writerVars, shutdown_event, completed, gen_left,
                   faults, requested, first_req, last_op, file0>>
    /\ UNCHANGED <<yielded, rowVars, migrateVars>>

\* cli.py:75, 190-192  __aexit__ at the end of the block, then the exit
Aexit ==
    /\ pc = "aexit"
    /\ CancelPending
    /\ pc' = IF phase \in {"interrupted", "ki"} THEN "exit_0" ELSE "exit_ok"
    /\ UNCHANGED <<opt, phase, api_max_id, max_id, current_pos, batch_end, batch_items,
                   cpVars, writerVars, shutdown_event, completed, gen_left, histVars>>
    /\ UNCHANGED <<yielded, rowVars, migrateVars>>

\* an exception other than KeyboardInterrupt leaves _fetch through the
\* finally of line 181 and __aexit__
Raise ==
    /\ pc = "raise"
    /\ CancelPending
    /\ pc' = "exit_error"
    /\ UNCHANGED <<opt, phase, api_max_id, max_id, current_pos, batch_end, batch_items,
                   cpVars, writerVars, shutdown_event, completed, gen_left, histVars>>
    /\ UNCHANGED <<yielded, rowVars, migrateVars>>

\* cli.py:54  asyncio.run: when _fetch has returned or raised, the runner
\* cancels every task that is still alive and runs the loop until they end
RunClose ==
    /\ pc \in {"exit_0", "exit_ok", "exit_error"}
    /\ LET hit == {i \in Ids : Live(task[i])}
           freed == Cardinality({i \in hit : HoldsPermit(task[i])})
       IN  /\ task' = [i \in Ids |-> IF i \in hit THEN Cancelled(task[i]) ELSE task[i]]
           /\ semaphore' = semaphore + freed
           /\ active_connections' =
                 IF active_connections - freed > 0 THEN active_connections - freed ELSE 0
    /\ pc' = "closed"
    /\ UNCHANGED <<opt, phase, api_max_id, max_id, current_pos, batch_end, batch_items,
                   cpVars, writerVars, shutdown, shutdown_event, client, pending_tasks,
                   completed, gen_left, histVars, yielded, clients, rowVars, migrateVars>>

\* cli.py:65-66  SIGINT: the handler sets the event
Signal ==
    /\ opt.sig
    /\ Suspended
    /\ ~shutdown_event
    /\ shutdown_event' = TRUE
    /\ UNCHANGED <<cliVars, cpVars, writerVars, semaphore, shutdown, client,
                   pending_tasks, task, completed, gen_left, active_connections,
                   histVars>>
    /\ UNCHANGED <<yielded, clients, rowVars, migrateVars>>

(* ---------------------------- specification --------------------------- *)
\* the command lines the model runs
Options ==
    [concurrency : 1..MaxConcurrency,
     batch_size  : 1..MaxBatchSize,
     resume      : BOOLEAN,
     has_start   : BOOLEAN,
     start       : {0 - MaxItemId - 1, 0 - 1, 0, 2},
     has_end     : BOOLEAN,
     end         : {2},
     sig         : BOOLEAN]

\* a directory of parquet files: chunk-NNNNN.parquet, year=/month=/ files and
\* hn.parquet (hn is <<>> or one file); NoDir is a path that does not exist
Dir(chunks_, hive_, hn_) == [exists |-> TRUE, chunks |-> chunks_, hive |-> hive_, hn |-> hn_]
NoDir == [exists |-> FALSE, chunks |-> <<>>, hive |-> [p \in Partitions |-> <<>>], hn |-> <<>>]
NoMigrate == [swap |-> FALSE, dry_run |-> FALSE, yes |-> FALSE]

\* the rows an earlier run left for a checkpoint at last id k
RECURSIVE RowsUpTo(_, _)
RowsUpTo(k, include_partitions) ==
    IF k <= 0 THEN <<>>
    ELSE RowsUpTo(k - 1, include_partitions)
           \o (IF HasData(k) THEN <<ItemToRow(k, include_partitions)>> ELSE <<>>)

\* the checkpoint files a run may find
\* (an empty file is what an interrupted save leaves; a file without
\* partition_style is what a release before the flat layout wrote; an
\* unreadable file is one whose mode bits were changed)
StartFiles ==
    {FileAbsent, FileEmpty, FileUnreadable}
    \cup {FileJson(Cp(k, MaxItemId, Len(RowsUpTo(k, FALSE)), Len(RowsUpTo(k, FALSE)), st), TRUE) :
            k \in 0..MaxItemId, st \in {"hive", "flat"}}
    \cup {FileJson(Cp(k, MaxItemId, Len(RowsUpTo(k, FALSE)), Len(RowsUpTo(k, FALSE)), ""), FALSE) :
            k \in 0..MaxItemId}

StartWriter(f) ==
    LET st == IF CpExists(f) /\ CpParses(f) THEN CpLoad(f).partition_style ELSE "hive"
        k  == IF CpExists(f) /\ CpParses(f) THEN CpLoad(f).last_fetched_id ELSE 0
    IN  FlushAllOf([style |-> st, buffer |-> RowsUpTo(k, st = "hive"), chunks |-> <<>>,
                    hive |-> [p \in Partitions |-> <<>>]])

(* ------------------------------ migrate ------------------------------- *)
\* largest number of failing steps (query, copy, rmtree, rename, write) one
\* migrate run meets
MigrateFaults == 1

\* data/items (old_dir of migrate, the output directory of fetch)
ActiveDir == [exists |-> old_dir.exists, chunks |-> chunks, hive |-> hive, hn |-> old_dir.hn]

SetActiveDir(d) ==
    /\ old_dir' = [exists |-> d.exists, hn |-> d.hn]
    /\ chunks' = d.chunks
    /\ hive' = d.hive

\* the rows of a list of files, file after file
RECURSIVE Flatten(_)
Flatten(files) == IF files = <<>> THEN <<>> ELSE Head(files) \o Flatten(Tail(files))

\* the files of every partition directory, directory after directory
RECURSIVE FilesOfPartitions(_, _)
FilesOfPartitions(h, ps) ==
    IF ps = {} THEN <<>>
    ELSE LET p == CHOOSE q \in ps : TRUE
         IN  h[p] \o FilesOfPartitions(h, ps \ {p})

\* cli.py:410  old_dir.glob("year=*/month=*/*.parquet")
HiveFiles(d) == IF d.exists THEN FilesOfPartitions(d.hive, Partitions) ELSE <<>>

\* cli.py:411  old_dir.glob("*.parquet"): the chunk files and hn.parquet
FlatFiles(d) == IF d.exists THEN d.chunks \o d.hn ELSE <<>>

\* SELECT * EXCLUDE (year, month)
RECURSIVE ExcludeYearMonth(_)
ExcludeYearMonth(rows) ==
    IF rows = <<>> THEN <<>>
    ELSE <<[id |-> Head(rows).id, ym |-> ""]>> \o ExcludeYearMonth(Tail(rows))

\* cli.py:418-433  union_query: the hive source, then the flat source
UnionQuery(d) ==
    (IF HiveFiles(d) # <<>> THEN ExcludeYearMonth(Flatten(HiveFiles(d))) ELSE <<>>)
    \o (IF FlatFiles(d) # <<>> THEN Flatten(FlatFiles(d)) ELSE <<>>)

RECURSIVE InsertById(_, _)
InsertById(r, rows) ==
    IF rows = <<>> THEN <<r>>
    ELSE IF r.id < Head(rows).id THEN <<r>> \o rows
    ELSE <<Head(rows)>> \o InsertById(r, Tail(rows))

\* mutant of OrderById: the rows are copied in the order of the union
Unordered(rows) == rows

\* cli.py:492  ORDER BY id
RECURSIVE OrderById(_)
OrderById(rows) ==
    IF rows = <<>> THEN <<>> ELSE InsertById(Head(rows), OrderById(Tail(rows)))

\* mutant of DryRun: --dry-run is not looked at
DryRunOff == FALSE

\* cli.py:465  if dry_run
DryRun == mopt.dry_run

migrateFrame == <<cliVars, checkpoint, partition_style, buffer, fetcherVars, faults,
                  requested, first_req, last_op, batch_ids, file0, yielded, clients,
                  mopt, dir0, rowVars>>

\* cli.py:410-416, 435-445  the globs and the plan's query
MigratePlan ==
    /\ mpc = "start"
    /\ IF HiveFiles(ActiveDir) = <<>> /\ FlatFiles(ActiveDir) = <<>>
       THEN mpc' = "no_data" /\ UNCHANGED total_items
       ELSE mpc' = "planned" /\ total_items' = Len(UnionQuery(ActiveDir))
    /\ UNCHANGED <<migrateFrame, checkpoint_file, chunks, hive, old_dir, new_dir,
                   backup_dir, mfaults>>

\* cli.py:465-474  dry run, --yes, or the question
MigrateReview ==
    /\ mpc = "planned"
    /\ mpc' = IF DryRun THEN "dry_run" ELSE IF mopt.yes THEN "mkdir" ELSE "confirm"
    /\ UNCHANGED <<migrateFrame, checkpoint_file, chunks, hive, old_dir, new_dir,
                   backup_dir, total_items, mfaults>>

\* cli.py:472  click.confirm answers
MigrateConfirm(answer) ==
    /\ mpc = "confirm"
    /\ mpc' = IF answer THEN "mkdir" ELSE "cancelled"
    /\ UNCHANGED <<migrateFrame, checkpoint_file, chunks, hive, old_dir, new_dir,
                   backup_dir, total_items, mfaults>>

\* cli.py:477  new_dir.mkdir(parents=True, exist_ok=True)
MigrateMkdir ==
    /\ mpc = "mkdir"
    /\ new_dir' = IF new_dir.exists THEN new_dir
                  ELSE Dir(<<>>, [p \in Partitions |-> <<>>], <<>>)
    /\ mpc' = "export"
    /\ UNCHANGED <<migrateFrame, checkpoint_file, chunks, hive, old_dir,
                   backup_dir, total_items, mfaults>>

\* cli.py:483-509  COPY (... ORDER BY id) TO data/items_v2/hn.parquet
MigrateExport ==
    /\ mpc = "export"
    /\ new_dir' = [new_dir EXCEPT !.hn = <<OrderById(UnionQuery(ActiveDir))>>]
    /\ mpc' = IF mopt.swap THEN "rmtree" ELSE "complete"
    /\ UNCHANGED <<migrateFrame, checkpoint_file, chunks, hive, old_dir,
                   backup_dir, total_items, mfaults>>

\* cli.py:516-517  an older backup is removed
MigrateRmtree ==
    /\ mpc = "rmtree"
    /\ backup_dir' = NoDir
    /\ mpc' = "rename_old"
    /\ UNCHANGED <<migrateFrame, checkpoint_file, chunks, hive, old_dir, new_dir,
                   total_items, mfaults>>

\* cli.py:518  old_dir.rename(backup_dir)
MigrateRenameOld ==
    /\ mpc = "rename_old"
    /\ backup_dir' = ActiveDir
    /\ SetActiveDir(NoDir)
    /\ mpc' = "rename_new"
    /\ UNCHANGED <<migrateFrame, checkpoint_file, new_dir, total_items, mfaults>>

\* cli.py:522  new_dir.rename(old_dir)
MigrateRenameNew ==
    /\ mpc = "rename_new"
    /\ SetActiveDir(new_dir)
    /\ new_dir' = NoDir
    /\ mpc' = "checkpoint"
    /\ UNCHANGED <<migrateFrame, checkpoint_file, backup_dir, total_items, mfaults>>

\* cli.py:529-533  the checkpoint is loaded (a file that does not parse
\* raises, which line 536 catches) and write_text opens it for writing
MigrateCheckpoint ==
    /\ mpc = "checkpoint"
    /\ IF ~CpExists(checkpoint_file)
       THEN mpc' = "complete" /\ UNCHANGED <<checkpoint, checkpoint_file>>
       ELSE IF ~CpParses(checkpoint_file)
       THEN mpc' = "error" /\ UNCHANGED <<checkpoint, checkpoint_file>>
       ELSE /\ checkpoint' = [CpLoad(checkpoint_file) EXCEPT !.partition_style = "flat"]
            /\ checkpoint_file' = FileEmpty
            /\ mpc' = "cp_write"
    /\ UNCHANGED <<cliVars, partition_style, buffer, fetcherVars, faults, requested,
                   first_req, last_op, batch_ids, file0, yielded, clients, mopt, dir0,
                   chunks, hive, old_dir, new_dir, backup_dir, total_items, mfaults,
                   rowVars>>

\* cli.py:533  write_text writes the text
MigrateCheckpointWrite ==
    /\ mpc = "cp_write"
    /\ checkpoint_file' = CpDump(checkpoint)
    /\ mpc' = "complete"
    /\ UNCHANGED <<migrateFrame, chunks, hive, old_dir, new_dir, backup_dir,
                   total_items, mfaults>>

\* a step raises (the query or the copy fails, a rename or rmtree raises
\* OSError, the checkpoint cannot be opened for writing or the write fails):
\* lines 443-445, 507-509 and 536-538 print the error and return
MigrateStepFails ==
    /\ mpc \in {"start", "export", "rmtree", "rename_old", "rename_new", "checkpoint",
                "cp_write"}
    /\ mpc = "start" => ~(HiveFiles(ActiveDir) = <<>> /\ FlatFiles(ActiveDir) = <<>>)
    /\ mpc = "checkpoint" => CpExists(checkpoint_file) /\ CpParses(checkpoint_file)
    /\ mfaults > 0
    /\ mfaults' = mfaults - 1
    /\ mpc' = "error"
    /\ UNCHANGED <<migrateFrame, checkpoint_file, chunks, hive, old_dir, new_dir,
                   backup_dir, total_items>>

InitWith(o, f, nf) ==
    /\ opt = o
    /\ pc = "start"
    /\ phase = "batch"
    /\ api_max_id = 0
    /\ max_id = 0
    /\ current_pos = 0
    /\ batch_end = 0
    /\ batch_items = <<>>
    /\ checkpoint = NoCp
    /\ checkpoint_file = f
    /\ partition_style = ""
    /\ buffer = <<>>
    /\ chunks = StartWriter(f).chunks
    /\ hive = StartWriter(f).hive
    /\ semaphore = o.concurrency
    /\ shutdown = FALSE
    /\ shutdown_event = FALSE
    /\ client = "none"
    /\ pending_tasks = {}
    /\ task = [i \in Ids |-> NoTask]
    /\ completed = <<>>
    /\ gen_left = 0
    /\ active_connections = 0
    /\ faults = nf
    /\ requested = {}
    /\ first_req = 0
    /\ last_op = "none"
    /\ batch_ids = {}
    /\ file0 = f
    /\ yielded = <<>>
    /\ clients = 0
    /\ mpc = "idle"
    /\ mopt = NoMigrate
    /\ old_dir = [exists |-> TRUE, hn |-> <<>>]
    /\ new_dir = NoDir
    /\ backup_dir = NoDir
    /\ total_items = 0 - 1
    /\ mfaults = 0
    /\ dir0 = NoDir
    /\ item = NoItem
    /\ row = NoRow

\* The runs of Spec: a first run (no checkpoint file, no --start, no --end)
\* with every concurrency and batch size, with and without a SIGINT handler;
\* and runs over every checkpoint file, --resume/--no-resume, --start and
\* --end, with the largest concurrency and batches of MaxBatchSize - 1 ids.
Scenario(o, f) ==
    \/ /\ f = FileAbsent
       /\ o.resume /\ ~o.has_start /\ ~o.has_end
    \/ /\ o.concurrency = MaxConcurrency
       /\ o.batch_size = MaxBatchSize - 1
       /\ o.sig

Init ==
    \E o \in Options, f \in StartFiles :
        /\ o.has_start \/ o.start = 0
        /\ Scenario(o, f)
        /\ InitWith(o, f, RunFaults)

\* runs of one batch of MaxBatchSize ids with no checkpoint, in which the
\* remote may fail often enough to exhaust the retries of an id
FetcherOptions ==
    [concurrency : 1..MaxConcurrency,
     batch_size  : {MaxBatchSize},
     resume      : {FALSE},
     has_start   : {FALSE},
     start       : {0},
     has_end     : {TRUE},
     end         : {MaxBatchSize},
     sig         : BOOLEAN]

InitFetcher == \E o \in FetcherOptions : InitWith(o, FileAbsent, MaxFaults)

Next ==
    \/ Aenter
    \/ GetMaxItemId
    \/ GetMaxItemIdFails
    \/ ResolveStart
    \/ LoopHead
    \/ AsCompletedNext
    \/ AwaitCoro
    \/ AddItemsStep
    \/ CheckpointUpdate
    \/ FlushAll
    \/ SaveOpen
    \/ SaveWrite
    \/ Crash
    \/ AfterLoop
    \/ KeyboardInterrupt
    \/ Aexit
    \/ Raise
    \/ RunClose
    \/ Signal
    \/ \E i \in Ids : FetchOneStart(i)
    \/ \E i \in Ids : Admit(i)
    \/ \E i \in Ids : ResponseOk(i)
    \/ \E i \in Ids : ResponseNotFound(i)
    \/ \E i \in Ids : ResponseHttpError(i)
    \/ \E i \in Ids : ResponseTransient(i)
    \/ \E i \in Ids : Wake(i)

Spec == Init /\ [][Next]_vars

SpecFetcher == InitFetcher /\ [][Next]_vars

\* a fetch command line for the commands that do not fetch (no fetch runs)
DefaultOptions ==
    [concurrency |-> 1, batch_size |-> 1, resume |-> TRUE, has_start |-> FALSE,
     start |-> 0, has_end |-> FALSE, end |-> 2, sig |-> TRUE]

\* the rows of the items at ids a..b
RECURSIVE RowsBetween(_, _, _)
RowsBetween(a, b, include_partitions) ==
    IF b < a THEN <<>>
    ELSE RowsBetween(a, b - 1, include_partitions)
           \o (IF HasData(b) THEN <<ItemToRow(b, include_partitions)>> ELSE <<>>)

\* the files flushes of the given rows leave, one file per flush
FilesOf(style, flushes) ==
    LET RECURSIVE Go(_, _)
        Go(w, fs) == IF fs = <<>> THEN w
                     ELSE Go(FlushAllOf([w EXCEPT !.buffer = Head(fs)]), Tail(fs))
    IN  Go([style |-> style, buffer |-> <<>>, chunks |-> <<>>,
            hive |-> [p \in Partitions |-> <<>>]], flushes)

\* The directories migrate may find in data/items: none; or chunk files of
\* ids 1..a and a+1..b (flat runs), partition files of ids 1..h (hive runs)
\* and an hn.parquet of ids 1..c (an earlier migrate --swap), in any mix.
StartDirs ==
    {NoDir}
    \cup {Dir(FilesOf("flat", <<RowsBetween(1, a, FALSE), RowsBetween(a + 1, b, FALSE)>>).chunks,
              FilesOf("hive", <<RowsBetween(1, h, TRUE)>>).hive,
              IF c = 0 THEN <<>> ELSE <<RowsBetween(1, c, FALSE)>>) :
            a \in 0..MaxItemId, b \in 0..MaxItemId, h \in 0..MaxItemId,
            c \in {0, MaxItemId - 1}}

\* the checkpoint files migrate may find
MigrateFiles ==
    {FileAbsent, FileEmpty,
     FileJson(Cp(MaxItemId, MaxItemId, 0, 0, "hive"), TRUE),
     FileJson(Cp(MaxItemId, MaxItemId, 0, 0, "flat"), TRUE),
     FileJson(Cp(MaxItemId, MaxItemId, 0, 0, ""), FALSE)}

\* `hn-sql migrate [--swap] [--dry-run] [--yes]` over every such directory and
\* checkpoint file, with or without the leftovers of an earlier migrate
InitMigrate ==
    \E d \in StartDirs, f \in MigrateFiles,
       o \in [swap : BOOLEAN, dry_run : BOOLEAN, yes : BOOLEAN],
       nd \in {NoDir, Dir(<<>>, [p \in Partitions |-> <<>>], <<RowsBetween(1, 1, FALSE)>>)},
       bd \in {NoDir, Dir(<<>>, FilesOf("hive", <<RowsBetween(1, 1, TRUE)>>).hive, <<>>)},
       nf \in 0..MigrateFaults :
        /\ opt = DefaultOptions
        /\ pc = "start"
        /\ phase = "batch"
        /\ api_max_id = 0
        /\ max_id = 0
        /\ current_pos = 0
        /\ batch_end = 0
        /\ batch_items = <<>>
        /\ checkpoint = NoCp
        /\ checkpoint_file = f
        /\ partition_style = ""
        /\ buffer = <<>>
        /\ chunks = d.chunks
        /\ hive = d.hive
        /\ semaphore = DefaultOptions.concurrency
        /\ shutdown = FALSE
        /\ shutdown_event = FALSE
        /\ client = "none"
        /\ pending_tasks = {}
        /\ task = [i \in Ids |-> NoTask]
        /\ completed = <<>>
        /\ gen_left = 0
        /\ active_connections = 0
        /\ faults = 0
        /\ requested = {}
        /\ first_req = 0
        /\ last_op = "none"
        /\ batch_ids = {}
        /\ file0 = f
        /\ yielded = <<>>
        /\ clients = 0
        /\ mpc = "start"
        /\ mopt = o
        /\ old_dir = [exists |-> d.exists, hn |-> d.hn]
        /\ new_dir = nd
        /\ backup_dir = bd
        /\ total_items = 0 - 1
        /\ mfaults = nf
        /\ dir0 = d
        /\ item = NoItem
        /\ row = NoRow

NextMigrate ==
    \/ MigratePlan
    \/ MigrateReview
    \/ \E answer \in BOOLEAN : MigrateConfirm(answer)
    \/ MigrateMkdir
    \/ MigrateExport
    \/ MigrateRmtree
    \/ MigrateRenameOld
    \/ MigrateRenameNew
    \/ MigrateCheckpoint
    \/ MigrateCheckpointWrite
    \/ MigrateStepFails

SpecMigrate == InitMigrate /\ [][NextMigrate]_vars

(* ------------------------ the event loop is fair ---------------------- *)
\* asyncio runs every task that is ready, every request comes back (the
\* client has a timeout), and the main coroutine goes on whenever it can.
\* Signals, KeyboardInterrupt and a kill of the process may or may not come.
MainStep ==
    \/ Aenter
    \/ GetMaxItemId
    \/ GetMaxItemIdFails
    \/ ResolveStart
    \/ LoopHead
    \/ AsCompletedNext
    \/ AwaitCoro
    \/ AddItemsStep
    \/ CheckpointUpdate
    \/ FlushAll
    \/ SaveOpen
    \/ SaveWrite
    \/ AfterLoop
    \/ Aexit
    \/ Raise
    \/ RunClose

Response(i) ==
    \/ ResponseOk(i)
    \/ ResponseNotFound(i)
    \/ ResponseHttpError(i)
    \/ ResponseTransient(i)

Fairness ==
    /\ WF_vars(MainStep)
    /\ \A i \in Ids : /\ WF_vars(FetchOneStart(i))
                      /\ WF_vars(Admit(i))
                      /\ WF_vars(Response(i))
                      /\ WF_vars(Wake(i))

SpecFetcherFair == InitFetcher /\ [][Next]_vars /\ Fairness

(* ------------------------- undisturbed runs --------------------------- *)
\* Fetch runs in which nothing goes wrong: no SIGINT or KeyboardInterrupt, no
\* kill, every request is answered with 200 or 404, and the checkpoint file,
\* if there is one, parses.  The event loop runs whatever is ready and every
\* request is answered, hence the fairness condition.
InitUndisturbed ==
    \E o \in Options, f \in StartFiles :
        /\ o.has_start \/ o.start = 0
        /\ o.sig
        /\ CpExists(f) => CpParses(f)
        /\ InitWith(o, f, 0)

NextUndisturbed ==
    \/ Aenter
    \/ GetMaxItemId
    \/ ResolveStart
    \/ LoopHead
    \/ AsCompletedNext
    \/ AwaitCoro
    \/ AddItemsStep
    \/ CheckpointUpdate
    \/ FlushAll
    \/ SaveOpen
    \/ SaveWrite
    \/ AfterLoop
    \/ Aexit
    \/ RunClose
    \/ \E i \in Ids : FetchOneStart(i)
    \/ \E i \in Ids : Admit(i)
    \/ \E i \in Ids : ResponseOk(i)
    \/ \E i \in Ids : ResponseNotFound(i)

SpecUndisturbed ==
    InitUndisturbed /\ [][NextUndisturbed]_vars /\ WF_vars(NextUndisturbed)

(* ------------------- a caller of one ParquetWriter -------------------- *)
\* The writer as an object: a caller makes a ParquetWriter on a directory,
\* calls add_item and flush_all in any order, and makes a new writer on the
\* same directory (a later run), of either partition style.  last_op is the
\* writer's last call ("none" for a writer nothing was called on yet).

\* most rows, buffered or in files, the caller hands to writers
MaxRows == 4

\* rows in a sequence of files
RECURSIVE RowCount(_)
RowCount(files) == IF files = <<>> THEN 0 ELSE Len(Head(files)) + RowCount(Tail(files))

RowsHeld == Len(buffer) + RowCount(chunks) + RowCount(hive["2024-01"])
               + RowCount(hive["2024-02"])

\* ParquetWriter.add_item(item), item the payload of id i
WriterAddItem(i) ==
    /\ pc = "writer"
    /\ RowsHeld < MaxRows
    /\ HasData(i)
    /\ SetWriter(AddItem(Writer, i))
    /\ last_op' = "add"
    /\ UNCHANGED <<cliVars, cpVars, fetcherVars, faults, requested, first_req,
                   batch_ids, file0>>
    /\ UNCHANGED <<yielded, clients, rowVars, migrateVars>>

\* ParquetWriter.flush_all()
WriterFlushAll ==
    /\ pc = "writer"
    /\ SetWriter(FlushAllOf(Writer))
    /\ last_op' = "flush"
    /\ UNCHANGED <<cliVars, cpVars, fetcherVars, faults, requested, first_req,
                   batch_ids, file0>>
    /\ UNCHANGED <<yielded, clients, rowVars, migrateVars>>

\* ParquetWriter.__init__ (lines 29-34) on the same directory: an empty
\* buffer; what the earlier writer had buffered is gone
WriterRestart(style) ==
    /\ pc = "writer"
    /\ partition_style' = style
    /\ buffer' = <<>>
    /\ last_op' = "none"
    /\ UNCHANGED <<cliVars, cpVars, chunks, hive, fetcherVars, faults, requested,
                   first_req, batch_ids, file0>>
    /\ UNCHANGED <<yielded, clients, rowVars, migrateVars>>

InitWriter ==
    \E style \in {"hive", "flat"} :
        /\ opt = DefaultOptions
        /\ pc = "writer"
        /\ phase = "batch"
        /\ api_max_id = 0
        /\ max_id = 0
        /\ current_pos = 0
        /\ batch_end = 0
        /\ batch_items = <<>>
        /\ checkpoint = NoCp
        /\ checkpoint_file = FileAbsent
        /\ partition_style = style
        /\ buffer = <<>>
        /\ chunks = <<>>
        /\ hive = [p \in Partitions |-> <<>>]
        /\ semaphore = DefaultOptions.concurrency
        /\ shutdown = FALSE
        /\ shutdown_event = FALSE
        /\ client = "none"
        /\ pending_tasks = {}
        /\ task = [i \in Ids |-> NoTask]
        /\ completed = <<>>
        /\ gen_left = 0
        /\ active_connections = 0
        /\ faults = 0
        /\ requested = {}
        /\ first_req = 0
        /\ last_op = "none"
        /\ batch_ids = {}
        /\ file0 = FileAbsent
        /\ yielded = <<>>
        /\ clients = 0
        /\ mpc = "idle"
        /\ mopt = NoMigrate
        /\ old_dir = [exists |-> TRUE, hn |-> <<>>]
        /\ new_dir = NoDir
        /\ backup_dir = NoDir
        /\ total_items = 0 - 1
        /\ mfaults = 0
        /\ dir0 = NoDir
        /\ item = NoItem
        /\ row = NoRow

NextWriter ==
    \/ \E i \in Ids : WriterAddItem(i)
    \/ WriterFlushAll
    \/ \E style \in {"hive", "flat"} : WriterRestart(style)

SpecWriter == InitWriter /\ [][NextWriter]_vars

(* ------------------------ a caller of item_to_row --------------------- *)
\* the payloads item_to_row is called on: every value of the two tombstone
\* flags, of the timestamp, and each other field present or not
RawItems ==
    [id : {"7"}, type : {"comment"}, by : {"a"}, time : {"None", "0", "T"},
     text : {"None", "x"}, url : {"None", "x"}, title : {"None", "x"},
     score : {"None", "x"}, descendants : {"x"}, parent : {"None", "3"},
     kids : {"None", "x"}, poll : {"x"}, parts : {"None", "x"},
     dead : {"None", "True", "False", "1", "0", "yes"},
     deleted : {"None", "True", "False", "1", "0", "yes"}]

\* row = item_to_row(item, include_partitions)
Encode(include_partitions) ==
    /\ pc = "row"
    /\ row = NoRow
    /\ row' = item_to_row(item, include_partitions)
    /\ UNCHANGED <<cliVars, cpVars, writerVars, fetcherVars, histVars, yielded, clients,
                   item, migrateVars>>

InitRow ==
    \E it \in RawItems :
        /\ opt = DefaultOptions
        /\ pc = "row"
        /\ phase = "batch"
        /\ api_max_id = 0
        /\ max_id = 0
        /\ current_pos = 0
        /\ batch_end = 0
        /\ batch_items = <<>>
        /\ checkpoint = NoCp
        /\ checkpoint_file = FileAbsent
        /\ partition_style = ""
        /\ buffer = <<>>
        /\ chunks = <<>>
        /\ hive = [p \in Partitions |-> <<>>]
        /\ semaphore = DefaultOptions.concurrency
        /\ shutdown = FALSE
        /\ shutdown_event = FALSE
        /\ client = "none"
        /\ pending_tasks = {}
        /\ task = [i \in Ids |-> NoTask]
        /\ completed = <<>>
        /\ gen_left = 0
        /\ active_connections = 0
        /\ faults = 0
        /\ requested = {}
        /\ first_req = 0
        /\ last_op = "none"
        /\ batch_ids = {}
        /\ file0 = FileAbsent
        /\ yielded = <<>>
        /\ clients = 0
        /\ mpc = "idle"
        /\ mopt = NoMigrate
        /\ old_dir = [exists |-> TRUE, hn |-> <<>>]
        /\ new_dir = NoDir
        /\ backup_dir = NoDir
        /\ total_items = 0 - 1
        /\ mfaults = 0
        /\ dir0 = NoDir
        /\ item = it
        /\ row = NoRow

NextRow == \E include_partitions \in BOOLEAN : Encode(include_partitions)

SpecRow == InitRow /\ [][NextRow]_vars

(* ---------------- a caller that reuses one HNFetcher ------------------ *)
\* The fetcher as an object, driven by a caller that enters it, starts
\* fetch_items, calls shutdown() any number of times (directly, or through
\* __aexit__, line 50-51) and enters it again.  pc is the caller's position:
\* "start" before the first __aenter__, "entered" after an __aenter__,
\* "await" while it awaits the first result of fetch_items, "shut" after a
\* shutdown().

\* HNFetcher.__aenter__ (lines 39-48): a new AsyncClient, _shutdown cleared
CallEnter ==
    /\ pc \in {"start", "shut"}
    /\ client' = "open"
    /\ clients' = clients + 1
    /\ shutdown' = FALSE
    /\ pc' = "entered"
    /\ UNCHANGED <<opt, phase, api_max_id, max_id, current_pos, batch_end, batch_items,
                   cpVars, writerVars, semaphore, shutdown_event, pending_tasks, task,
                   completed, gen_left, active_connections, histVars>>
    /\ UNCHANGED <<yielded, rowVars, migrateVars>>

\* HNFetcher.fetch_items up to its first await (lines 126-134): one task per
\* id, all of them pending
CallFetchItems ==
    /\ pc = "entered"
    /\ \E n \in 1..MaxBatchSize :
          LET ids == 1..n
          IN  /\ task' = [i \in Ids |-> IF i \in ids THEN NewTask
                                        ELSE IF Live(task[i]) THEN task[i]
                                        ELSE NoTask]
              /\ pending_tasks' = pending_tasks \cup ids
              /\ completed' = <<>>
              /\ gen_left' = n
    /\ pc' = "await"
    /\ UNCHANGED <<opt, phase, api_max_id, max_id, current_pos, batch_end, batch_items,
                   cpVars, writerVars, semaphore, shutdown, shutdown_event, client,
                   active_connections, histVars>>
    /\ UNCHANGED <<yielded, clients, rowVars, migrateVars>>

\* HNFetcher.shutdown (lines 53-66), called on a fetcher that was entered;
\* the call may be the first one or a later one
CallShutdown ==
    /\ pc \in {"entered", "await", "shut"}
    /\ CancelPending
    /\ pc' = "shut"
    /\ UNCHANGED <<opt, phase, api_max_id, max_id, current_pos, batch_end, batch_items,
                   cpVars, writerVars, shutdown_event, completed, gen_left, histVars>>
    /\ UNCHANGED <<yielded, rowVars, migrateVars>>

InitLifecycle == \E o \in FetcherOptions : InitWith(o, FileAbsent, MaxFaults)

NextLifecycle ==
    \/ CallEnter
    \/ CallFetchItems
    \/ CallShutdown
    \/ \E i \in Ids : FetchOneStart(i)
    \/ \E i \in Ids : Admit(i)
    \/ \E i \in Ids : ResponseOk(i)
    \/ \E i \in Ids : ResponseNotFound(i)
    \/ \E i \in Ids : ResponseHttpError(i)
    \/ \E i \in Ids : ResponseTransient(i)
    \/ \E i \in Ids : Wake(i)

SpecLifecycle == InitLifecycle /\ [][NextLifecycle]_vars

(* ------------------------------- claims ------------------------------- *)
\* last_fetched_id of the checkpoint file (a file that parses)
PersistedLast == CpLoad(checkpoint_file).last_fetched_id

\* C1 (as claimed): after a run that was cancelled inside a batch has shut
\* down, every id of that batch for which the remote holds data is either on
\* disk and covered by the persisted last_fetched_id, or not on disk and above
\* the persisted last_fetched_id.
C1_CheckpointNeverClaimsMissingId ==
    (pc = "exit_0" /\ CpParses(checkpoint_file)) =>
        \A i \in batch_ids :
            HasData(i) =>
                \/ i \in OnDisk /\ PersistedLast >= i
                \/ i \notin OnDisk /\ PersistedLast < i

\* C2: every checkpoint save begins right after a writer flush_all, with no
\* row added in between: the writer's last call was flush_all, its buffer is
\* empty, and the rows of the batch that the layout keeps are in the archive.
\* This holds for the save of a batch, the save after the loop, the save of
\* the cancellation path and the save of the KeyboardInterrupt handler.
C2_SaveFollowsFlush ==
    [][(pc = "save" /\ pc' = "save_write") =>
          /\ last_op = "flush"
          /\ buffer = <<>>
          /\ (phase = "batch" =>
                \A k \in 1..Len(batch_items) :
                    (partition_style = "flat" \/ RemoteYm(batch_items[k]) # "")
                       => batch_items[k] \in OnDisk)]_vars

\* C2 witness: the KeyboardInterrupt handler is about to write the checkpoint
\* after rows were added and flushed
C2_Witness ==
    /\ pc = "save_write"
    /\ phase = "ki"
    /\ last_op = "flush"
    /\ batch_items # <<>>
    /\ checkpoint.items_written > 0

\* the run resumes from the checkpoint file it found
Resumed == opt.resume /\ ~opt.has_start /\ CpExists(file0) /\ CpParses(file0)

\* C3: a run that resumes from a checkpoint with last_fetched_id = K requests
\* no id <= K; the first id it requests is K + 1, and a run that ends normally
\* with K + 1 <= the target max has requested it.
C3_ResumeRequestsAboveK ==
    Resumed =>
        LET K == CpLoad(file0).last_fetched_id
        IN  /\ \A i \in requested : i > K
            /\ first_req # 0 => first_req = K + 1
            /\ (pc = "exit_ok" /\ K + 1 <= max_id) => first_req = K + 1

\* C3 witness: a resumed run from K = 2 has ended normally after its requests
C3_Witness ==
    /\ Resumed
    /\ CpLoad(file0).last_fetched_id = 2
    /\ pc = "exit_ok"
    /\ first_req = 3
    /\ requested = {3, 4}

\* item requests in flight: tasks awaiting self._client.get
InFlight == {i \in Ids : task[i].pc = "req"}

\* C4: at most `concurrency` item requests are in flight, first attempts and
\* retry attempts alike.
C4_ConcurrencyCeiling == Cardinality(InFlight) <= opt.concurrency

\* C4 witness: the ceiling is reached with a retry attempt in flight while
\* another task waits at the gate
C4_Witness ==
    /\ Cardinality(InFlight) = opt.concurrency
    /\ \E i \in InFlight : task[i].attempt > 0
    /\ Waiters # {}

\* C5 (as claimed): a fetch_item whose request was answered 404, in the first
\* attempt or in a retry, returns absent and raises nothing.
C5_NotFoundReturnsAbsent ==
    \A i \in Ids : task[i].why = "404" => task[i].pc = "done_none"

\* C5 is refuted by a 404 in a retry: the request of line 100 is made inside
\* the handler of line 91, where only the transient errors are caught.

\* C6: a transient failure with no shutdown is followed by a backoff sleep and
\* a retry, at most 3 times, each sleep longer than the one before; when the
\* first request and the 3 retries have all failed that way (4 requests)
\* fetch_item returns absent; a retry that is answered with the item returns it.
C6_RetriesThenAbsent ==
    [][\A i \in Ids :
          /\ (task[i].pc = "req" /\ task'[i].pc = "sleep") =>
                /\ task'[i].attempt = task[i].attempt + 1
                /\ task'[i].attempt <= 3
                /\ task'[i].delay > task[i].delay
          /\ (task[i].pc = "sleep" /\ task'[i].pc = "req") =>
                task'[i].attempt = task[i].attempt
          /\ (task[i].pc = "req" /\ faults' < faults
                /\ task'[i] # task[i] /\ task'[i].pc # "raised"
                /\ ~(shutdown \/ shutdown_event)) =>
                IF task[i].attempt < 3
                THEN task'[i].pc = "sleep"
                ELSE task'[i].pc = "done_none" /\ task'[i].why = "giveup"
          /\ (task'[i].why = "giveup" /\ task[i].why # "giveup") =>
                /\ task[i].pc = "req" /\ task[i].attempt = 3
                /\ task'[i].pc = "done_none"
          /\ (task[i].pc = "req" /\ task[i].attempt >= 1 /\ task'[i].why = "ok") =>
                task'[i].pc = "done_item"]_vars

\* C6 witness: with no shutdown an id has given up after its fourth request,
\* the last of its three sleeps having been the longest
C6_Witness ==
    /\ ~(shutdown \/ shutdown_event)
    /\ \E i \in Ids : task[i].why = "giveup" /\ task[i].attempt = 3 /\ task[i].delay = 3

\* the run got as far as its batch loop: the checkpoint of the run exists
InBatchLoop == "last_fetched_id" \in DOMAIN checkpoint

\* C7 (as claimed): once the cancellation signal is set in the batch loop the
\* run starts no further batch and goes on to flush, save and exit with
\* status 0: it does not end with an error.
C7_CancelledRunExitsCleanly ==
    (shutdown_event /\ InBatchLoop) => pc \notin {"raise", "exit_error"}

\* C8: once the fetcher's flag or the external event is set no new physical
\* request is started; a fetch_item that waits at the gate, has not run yet
\* or sleeps before a retry returns absent when it runs again.  (A task that
\* is cancelled in one of these places, by HNFetcher.shutdown or by the
\* cleanup of asyncio.run, never runs again.)
C8_NoRequestAfterShutdown ==
    [][(shutdown \/ shutdown_event) =>
          \A i \in Ids :
              /\ ~(task'[i].pc = "req" /\ task[i].pc # "req")
              /\ (task[i].pc \in {"new", "gate", "sleep"}
                    /\ task'[i] # task[i] /\ task'[i].pc # "cancelled") =>
                    task'[i].pc = "done_none" /\ task'[i].why = "shutdown"]_vars

\* C8 witness: with the signal set, a task that slept before a retry has
\* returned absent while another one was stopped at first run or at the gate
C8_Witness ==
    /\ shutdown_event
    /\ \E i, j \in Ids :
          /\ task[i].why = "shutdown" /\ task[i].attempt >= 1
          /\ task[j].why = "shutdown" /\ task[j].attempt = 0 /\ j \notin requested

\* C9: when the run finds a checkpoint file, its writer has the file's
\* partition_style in every mode, only files of that layout are added, and the
\* style the file records stays what it was.
C9_LayoutFollowsCheckpoint ==
    (CpExists(file0) /\ CpParses(file0)) =>
        LET st == CpLoad(file0).partition_style
        IN  /\ partition_style \in {"", st}
            /\ st = "hive" => chunks = StartWriter(file0).chunks
            /\ st = "flat" => hive = StartWriter(file0).hive
            /\ CpParses(checkpoint_file) =>
                  CpLoad(checkpoint_file).partition_style = st

\* C9 witness: a --no-resume run over a flat checkpoint has added a chunk file
C9_Witness ==
    /\ ~opt.resume /\ ~opt.has_start
    /\ CpExists(file0) /\ CpParses(file0)
    /\ CpLoad(file0).partition_style = "flat"
    /\ pc = "exit_ok"
    /\ Len(chunks) > Len(StartWriter(file0).chunks)

\* C10 (as claimed): during a save, and after a crash during a save, the file
\* holds a complete snapshot (the previous one or the new one), never an
\* empty or partial text.
C10_SaveIsAtomic ==
    pc \in {"save_write", "crashed"} => checkpoint_file.kind # "empty"

\* the old layout is fully active: data/items and the checkpoint are as the
\* command found them
OldLayoutActive == ActiveDir = dir0 /\ checkpoint_file = file0

\* the new layout is fully active: data/items holds the consolidated file
\* only, and a checkpoint, if there is one, records the flat style
NewLayoutActive ==
    /\ old_dir.exists /\ old_dir.hn # <<>>
    /\ chunks = <<>> /\ \A p \in Partitions : hive[p] = <<>>
    /\ CpExists(checkpoint_file) =>
          CpParses(checkpoint_file) /\ CpLoad(checkpoint_file).partition_style = "flat"

\* C11 (as claimed): when migrate --swap returns, after success or after a
\* step that failed, either the old layout is fully active or the new one is
\* (the checkpoint the command found being absent or well-formed).
C11_SwapIsOneTransition ==
    (mopt.swap /\ mpc \in {"error", "complete"} /\ (CpExists(file0) => CpParses(file0))) =>
        OldLayoutActive \/ NewLayoutActive

\* migrate has written its output file
AfterExport ==
    mpc \in {"rmtree", "rename_old", "rename_new", "checkpoint", "cp_write", "complete"}

\* the directory the output file is in: data/items_v2, or data/items once
\* the swap has renamed it
OutputDir ==
    IF mpc \in {"checkpoint", "cp_write"} \/ (mpc = "complete" /\ mopt.swap)
    THEN ActiveDir ELSE new_dir

\* how many rows of id i a file, a list of files, a directory hold
CountRows(rows, i) == Cardinality({k \in 1..Len(rows) : rows[k].id = i})

RECURSIVE CountFiles(_, _)
CountFiles(files, i) ==
    IF files = <<>> THEN 0 ELSE CountRows(Head(files), i) + CountFiles(Tail(files), i)

RECURSIVE CountPartitions(_, _, _)
CountPartitions(h, ps, i) ==
    IF ps = {} THEN 0
    ELSE LET p == CHOOSE q \in ps : TRUE
         IN  CountFiles(h[p], i) + CountPartitions(h, ps \ {p}, i)

SourceCount(d, i) ==
    CountFiles(d.chunks, i) + CountFiles(d.hn, i) + CountPartitions(d.hive, Partitions, i)

\* C12: once migrate (not dry-run, confirmed, with source files) has exported,
\* its output directory holds exactly one file; the file has, for every id, as
\* many rows as the flat and partitioned source files together (nothing lost,
\* added or deduplicated), without partition columns, in ascending id order;
\* and the plan's total_items is its row count.
C12_OneSortedUnionFile ==
    AfterExport =>
        /\ Len(OutputDir.hn) = 1
        /\ OutputDir.chunks = <<>>
        /\ \A p \in Partitions : OutputDir.hive[p] = <<>>
        /\ LET rows == OutputDir.hn[1]
           IN  /\ \A k \in 1..(Len(rows) - 1) : rows[k].id <= rows[k + 1].id
               /\ \A k \in 1..Len(rows) : rows[k].ym = ""
               /\ \A i \in Ids : CountRows(rows, i) = SourceCount(dir0, i)
               /\ total_items = Len(rows)

\* C12 witness: a completed migrate over a directory with partition files,
\* chunk files and an id that is in two source files
C12_Witness ==
    /\ mpc = "complete"
    /\ HiveFiles(dir0) # <<>> /\ dir0.chunks # <<>>
    /\ \E i \in Ids : SourceCount(dir0, i) >= 2
    /\ total_items >= 3

\* C13: no step of migrate --dry-run, with or without --swap, changes
\* data/items, data/items_v2, data/items_old or the checkpoint file.
C13_DryRunChangesNothing ==
    [][mopt.dry_run =>
          /\ chunks' = chunks /\ hive' = hive /\ old_dir' = old_dir
          /\ new_dir' = new_dir /\ backup_dir' = backup_dir
          /\ checkpoint_file' = checkpoint_file]_vars

\* C13 witness: a dry run with --swap over existing data and an existing
\* checkpoint has shown its plan and returned
C13_Witness ==
    /\ mpc = "dry_run" /\ mopt.swap
    /\ total_items > 0
    /\ CpExists(checkpoint_file)
    /\ ActiveDir = dir0 /\ checkpoint_file = file0

\* the ids fetch_items has yielded a pair for
YieldedIds == {yielded[k] : k \in 1..Len(yielded)}

\* fetch_items has ended after its last task, in a run with no shutdown
EndedUnshut ==
    /\ pc \in {"add_items", "update", "flush", "save", "save_write"}
    /\ phase = "batch"
    /\ ~shutdown /\ ~shutdown_event

\* C14: fetch_items never yields an id twice; when it ends with no shutdown
\* and no raised error it has yielded every id of the batch exactly once;
\* every pair it yields is that of the task that finished first among those
\* not yet yielded, tasks joining the queue in the order they finish.
C14_OnePairPerIdInCompletionOrder ==
    /\ [](/\ \A k, l \in 1..Len(yielded) : k # l => yielded[k] # yielded[l]
          /\ EndedUnshut => (YieldedIds = BatchIds /\ Len(yielded) = Cardinality(BatchIds)))
    /\ [][/\ Len(yielded') > Len(yielded) =>
                completed # <<>> /\ yielded' = Append(yielded, Head(completed))
          /\ \A i \in Ids : (Live(task[i]) /\ Ended(task'[i]) /\ pc' = pc /\ shutdown' = shutdown) =>
                completed' = Append(completed, i)]_vars

\* C14 witness: a batch of MaxBatchSize ids was yielded completely in an
\* order that is not the input order
C14_Witness ==
    /\ EndedUnshut
    /\ Len(yielded) = MaxBatchSize
    /\ yielded[1] > yielded[Len(yielded)]

\* C15: HNFetcher.shutdown leaves none of its pending tasks alive, wherever
\* they were (gate, request, backoff sleep), and returns without raising; the
\* iteration over fetch_items raises only an HTTP status error of a task,
\* never a cancellation; when the run is over no task is alive.
C15_ShutdownEndsTasksQuietly ==
    /\ [](pc = "closed" => \A i \in Ids : ~Live(task[i]))
    /\ [][/\ (~shutdown /\ shutdown') =>
                /\ \A i \in pending_tasks : ~Live(task'[i])
                /\ pc = "raise" \/ pc' # "exit_error"
                /\ pc' # "raise"
          /\ (pc \in {"iter", "await"} /\ pc' = "raise") =>
                /\ completed # <<>>
                /\ task[Head(completed)].why \in {"404", "500"}]_vars

\* C15 witness: shutdown has cancelled one task at the gate and another one
\* in a retry (its backoff sleep or its request)
C15_Witness ==
    /\ shutdown /\ shutdown_event
    /\ \E i, j \in Ids :
          /\ task[i].pc = "cancelled" /\ task[i].attempt = 0 /\ i \notin requested
          /\ task[j].pc = "cancelled" /\ task[j].attempt >= 1

\* fetch_items is being consumed
Consuming == pc \in {"iter", "await"}

\* C16: a pair yielded while the signal is set is the last one of its
\* fetch_items (the iteration is not resumed after it), and with the signal
\* or the fetcher's flag set no iteration is resumed or begun: at most one
\* pair follows the signal.
C16_YieldStopsAfterSignal ==
    [][/\ (shutdown_event /\ Len(yielded') > Len(yielded)) =>
             /\ Consuming /\ Len(yielded') = Len(yielded) + 1
             /\ ~Consuming'
       /\ ((shutdown_event \/ shutdown) /\ ~Consuming) =>
             /\ ~Consuming'
             /\ yielded' = yielded]_vars

\* C16 witness: the signal came, one more pair was yielded and the iteration
\* was left while tasks of the batch had not finished
C16_Witness ==
    /\ shutdown_event
    /\ pc = "add_items"
    /\ Len(yielded) = 2
    /\ \E i \in BatchIds : Live(task[i]) /\ i \notin YieldedIds

\* C17 (as claimed): every physical request attempt, the first one and each
\* retry, fires one connection-started event (the progress display's count
\* of active connections goes up by one when the request is issued).
C17_StartEventPerAttempt ==
    [][\A i \in Ids :
          (task[i].pc # "req" /\ task'[i].pc = "req") =>
              active_connections' = active_connections + 1]_vars

\* C18: shutdown() is idempotent.  After a call no task is pending or still
\* running, no client is open and every client that was created is closed;
\* a further call on the shut-down fetcher cancels nothing and closes
\* nothing (no task, permit or client changes); at any time the clients
\* created and not closed are exactly the one the fetcher holds, if any; and
\* an __aenter__ after shutdown leaves the fetcher with one open client and
\* its shutdown flag cleared.
C18_ShutdownIdempotent ==
    /\ [](pc = "shut" =>
            /\ shutdown
            /\ pending_tasks = {}
            /\ \A i \in Ids : ~Live(task[i])
            /\ client = "none"
            /\ clients = 0)
    /\ [](clients = IF client = "open" THEN 1 ELSE 0)
    /\ [][(pc = "shut" /\ pc' = "shut") =>
              UNCHANGED <<task, pending_tasks, client, clients, semaphore,
                          active_connections, shutdown>>]_vars
    /\ [][(pc = "shut" /\ pc' = "entered") =>
              client' = "open" /\ clients' = 1 /\ ~shutdown']_vars

\* the fetcher was shut down while a task was running and was entered again
C18_Witness ==
    /\ pc = "entered"
    /\ client = "open"
    /\ clients = 1
    /\ \E i \in Ids : task[i].pc = "cancelled"


\* C19: when checkpoint.json exists and does not parse, a fetch run, whether
\* it resumes, starts afresh or has an explicit --start, raises from the
\* load as soon as it has the max item id; at no point of the run is an item
\* requested, an archive file written, a checkpoint built or the checkpoint
\* file touched, and the batch loop is never entered.
C19_MalformedCheckpointIsFatal ==
    /\ [](file0 = FileEmpty =>
            /\ requested = {}
            /\ checkpoint_file = file0
            /\ chunks = StartWriter(file0).chunks
            /\ hive = StartWriter(file0).hive
            /\ buffer = <<>>
            /\ checkpoint = NoCp
            /\ pc \in {"start", "get_max", "resolve", "raise", "exit_error", "closed"})
    /\ [][(file0 = FileEmpty /\ pc = "resolve") => pc' = "raise"]_vars

\* a run with --start that got the max item id and failed on the load
C19_Witness ==
    /\ file0 = FileEmpty
    /\ opt.has_start
    /\ api_max_id = MaxItemId
    /\ pc = "exit_error"
    /\ faults = RunFaults


\* C20: CheckpointManager.load returns None, and does not raise, when the
\* checkpoint file is missing or is there but cannot be read: the run that
\* loads it goes on to its batch loop as with no checkpoint.
C20_LoadNeverRaises ==
    [][(pc = "resolve" /\ checkpoint_file \in {FileAbsent, FileUnreadable}) =>
          pc' = "loop"]_vars


\* C21: a checkpoint file without partition_style loads as a checkpoint whose
\* partition_style is "hive" and whose other fields are those of the file; a
\* run that resumes from it carries them on (with max_item_id refreshed) and
\* writes only year/month files.  A file with partition_style loads with that
\* value, and what save writes loads back as the checkpoint that was saved.
Legacy(f) == CpExists(f) /\ CpParses(f) /\ ~f.has_style

C21_LegacyRecordLoadsAsHive ==
    /\ [](\A f \in StartFiles :
            /\ Legacy(f) =>
                  /\ CpLoad(f).partition_style = "hive"
                  /\ \A k \in DOMAIN f.cp \ {"partition_style"} : CpLoad(f)[k] = f.cp[k]
            /\ (CpParses(f) /\ f.has_style) => CpLoad(f) = f.cp)
    /\ [](InBatchLoop => CpLoad(CpDump(checkpoint)) = checkpoint)
    /\ []((Legacy(file0) /\ opt.resume /\ ~opt.has_start) =>
            /\ partition_style \in {"", "hive"}
            /\ chunks = StartWriter(file0).chunks
            /\ InBatchLoop => checkpoint.partition_style = "hive")
    /\ [][(Legacy(file0) /\ opt.resume /\ ~opt.has_start /\ pc = "resolve") =>
              checkpoint' = [file0.cp EXCEPT !.partition_style = "hive",
                                             !.max_item_id = max_id]]_vars

\* a run resumed from a file without partition_style has added year/month
\* files and saved
C21_Witness ==
    /\ Legacy(file0) /\ opt.resume /\ ~opt.has_start
    /\ pc = "exit_ok"
    /\ \E p \in Partitions : Len(hive[p]) > Len(StartWriter(file0).hive[p])
    /\ CpParses(checkpoint_file) /\ checkpoint_file.has_style
    /\ checkpoint_file.cp.partition_style = "hive"


\* C22: in one fetch run the last_fetched_id of the run's checkpoint never
\* goes down from one update to the next, nor does the one in the file from
\* one save of the run to the next; a resumed run starts from the file's
\* last_fetched_id whatever max id it refreshes max_item_id to, a smaller one
\* included.
SavedByRun == CpParses(checkpoint_file) /\ (checkpoint_file # file0 \/ Resumed)

C22_LastFetchedIdNeverDecreases ==
    /\ [][(InBatchLoop /\ "last_fetched_id" \in DOMAIN checkpoint') =>
              checkpoint'.last_fetched_id >= checkpoint.last_fetched_id]_vars
    /\ [][(SavedByRun /\ CpParses(checkpoint_file')) =>
              checkpoint_file'.cp.last_fetched_id >= checkpoint_file.cp.last_fetched_id]_vars
    /\ [][(Resumed /\ pc = "resolve") =>
              /\ checkpoint'.last_fetched_id = file0.cp.last_fetched_id
              /\ checkpoint'.max_item_id = max_id]_vars

\* a run resumed with a target max below the last_fetched_id of the file has
\* saved
C22_Witness ==
    /\ Resumed
    /\ opt.has_end /\ opt.end < file0.cp.last_fetched_id
    /\ pc = "exit_ok"
    /\ CpParses(checkpoint_file)
    /\ checkpoint_file.cp.max_item_id = opt.end
    /\ checkpoint_file.cp.last_fetched_id = file0.cp.last_fetched_id


\* C23: the start id of a run.  With --start s it is s when s >= 0 and
\* max(1, remote max id + s) when s < 0, whether or not there is a checkpoint
\* to resume from; without --start it is last_fetched_id + 1 when --resume is
\* on and a checkpoint file exists; in every other case it is 1.
C23_StartIdPrecedence ==
    [][(pc = "resolve" /\ pc' = "loop") =>
          current_pos' =
             IF opt.has_start
             THEN IF opt.start >= 0 THEN opt.start
                  ELSE IF api_max_id + opt.start > 1 THEN api_max_id + opt.start ELSE 1
             ELSE IF opt.resume /\ file0 # FileAbsent
             THEN file0.cp.last_fetched_id + 1
             ELSE 1]_vars

\* a run with --start -1 and --resume over a checkpoint file starts one below
\* the remote max id
C23_Witness ==
    /\ opt.has_start /\ opt.start = 0 - 1
    /\ opt.resume /\ CpParses(file0) /\ file0.cp.last_fetched_id = 1
    /\ pc = "loop"
    /\ checkpoint.last_fetched_id = 0
    /\ current_pos = MaxItemId - 1


\* C24: batches are sequential.  With no cancellation signal, every task that
\* is still running belongs to the batch in progress; and when a request is
\* issued, it is for an id of the batch in progress, no task of another batch
\* is running, and if a batch came before, its rows are flushed (the writer's
\* last call is flush_all and its buffer is empty) and its checkpoint, whose
\* last_fetched_id is the id just below the batch in progress, is in the file.
C24_BatchesAreSequential ==
    /\ [](~shutdown_event => \A i \in Ids : Live(task[i]) => i \in BatchIds)
    /\ [][~shutdown_event =>
            \A i \in Ids :
               (task'[i].pc = "req" /\ task[i].pc # "req") =>
                  /\ i \in BatchIds
                  /\ \A j \in Ids \ BatchIds : ~Live(task[j])
                  /\ last_op # "none" =>
                        /\ last_op = "flush"
                        /\ buffer = <<>>
                        /\ checkpoint_file = CpDump(checkpoint)
                        /\ checkpoint.last_fetched_id = current_pos - 1]_vars

\* a request of a second batch is out, after the first batch was flushed and
\* saved
C24_Witness ==
    /\ ~shutdown_event
    /\ last_op = "flush"
    /\ ~Resumed
    /\ checkpoint.last_fetched_id >= 1
    /\ checkpoint.items_written >= 1
    /\ \E i \in BatchIds : task[i].pc = "req"


\* C25: the writer's buffer always holds fewer rows than the flush threshold:
\* an add_item that brings it to the threshold flushes and leaves it empty.
\* After flush_all the buffer is empty, and a flush_all on an empty buffer
\* leaves every file and the file count as they were.
C25_BufferBelowThreshold ==
    /\ [](Len(buffer) < BufferSize)
    /\ [](last_op = "flush" => buffer = <<>>)
    /\ [][(last_op' = "add" /\ Len(buffer) + 1 >= BufferSize) => buffer' = <<>>]_vars
    /\ [][(last_op' = "flush" /\ buffer = <<>>) => (chunks' = chunks /\ hive' = hive)]_vars

\* an add_item reached the threshold and flushed: the buffer is empty and a
\* file with BufferSize rows is there
C25_Witness ==
    /\ last_op = "add"
    /\ buffer = <<>>
    /\ \E k \in 1..Len(chunks) : Len(chunks[k]) = BufferSize


\* C26: in the flat layout every flush that writes adds exactly one chunk
\* file, numbered by the count of the chunk files there were, and leaves every
\* file that was there, chunk or year/month, as it was; this across restarts
\* of the writer on the directory.  The new file holds the rows that were
\* buffered.
C26_FlatChunksAreAppended ==
    [][(partition_style' = "flat" /\ partition_style = "flat" /\ last_op' # "none"
          /\ <<buffer, chunks, hive>>' # <<buffer, chunks, hive>>) =>
          /\ hive' = hive
          /\ \/ chunks' = chunks /\ Len(buffer') = Len(buffer) + 1
             \/ /\ Len(chunks') = Len(chunks) + 1
                /\ SubSeq(chunks', 1, Len(chunks)) = chunks
                /\ chunks'[NextNum(chunks) + 1] # <<>>
                /\ SubSeq(chunks'[NextNum(chunks) + 1], 1, Len(buffer)) = buffer
                /\ buffer' = <<>>]_vars

\* a flat writer made on a directory that already had two chunk files and a
\* year/month file has added a third chunk file
C26_Witness ==
    /\ partition_style = "flat"
    /\ last_op = "flush"
    /\ Len(chunks) = 3
    /\ \E p \in Partitions : hive[p] # <<>>


\* C27: the row of a payload whose dead or deleted flag is the boolean true
\* or the integer 1 has id, type, by, parent and the timestamp of the payload,
\* the two flags as booleans, and null in text, url, title, score,
\* descendants, kids, poll and parts whatever the payload had there; the row
\* of any other payload has these eight fields as the payload has them.
C27_TombstoneRowsAreMinimal ==
    row # NoRow =>
        LET tomb == item.dead \in {"True", "1"} \/ item.deleted \in {"True", "1"}
        IN  /\ row.id = item.id /\ row.type = item.type /\ row.by = item.by
            /\ row.parent = item.parent
            /\ row.time = (IF item.time \in {"None", "0"} THEN "None"
                           ELSE "dt(" \o item.time \o ")")
            /\ row.dead = (IF item.dead \in {"True", "1"} THEN "True" ELSE "False")
            /\ row.deleted = (IF item.deleted \in {"True", "1"} THEN "True" ELSE "False")
            /\ \A f \in CopiedFields : row[f] = IF tomb THEN "None" ELSE item[f]

\* the row of a payload with dead = 1, not deleted, that carried a text and a
\* score
C27_Witness ==
    /\ row # NoRow
    /\ item.dead = "1" /\ item.deleted = "False"
    /\ item.text = "x" /\ item.score = "x"
    /\ row.text = "None" /\ row.score = "None"
    /\ row.dead = "True" /\ row.deleted = "False"


\* C28: the request for the max item id is made once.  When it fails the
\* error leaves _fetch at once; the run never asks again, and, having no max
\* id, it requests no item, builds no checkpoint and leaves the checkpoint
\* file and the archive files as it found them.
C28_MaxIdFailureAbortsRun ==
    /\ [][(pc = "get_max" /\ faults' # faults) => pc' = "raise"]_vars
    /\ [][pc \notin {"start", "get_max"} => pc' # "get_max"]_vars
    /\ [](api_max_id = 0 =>
            /\ pc \in {"start", "get_max", "raise", "exit_error", "closed"}
            /\ requested = {}
            /\ checkpoint = NoCp
            /\ checkpoint_file = file0
            /\ buffer = <<>>
            /\ chunks = StartWriter(file0).chunks
            /\ hive = StartWriter(file0).hive)

\* a run over an existing checkpoint ended with the error of the max id
\* request
C28_Witness ==
    /\ api_max_id = 0
    /\ pc = "exit_error"
    /\ faults = RunFaults - 1
    /\ CpParses(file0)
    /\ file0.cp.last_fetched_id >= 1


\* C29 (as claimed): when migrate --swap has completed, whether or not there
\* was a checkpoint file, data/items_old is the directory the command found,
\* data/items holds the consolidated file only, the checkpoint file records
\* the flat style, and the style the next fetch run gives its writer
\* (cli.py:85-110) is flat.
C29_SwapThenFetchWritesFlat ==
    (mopt.swap /\ mpc = "complete") =>
        /\ backup_dir = dir0
        /\ ActiveDir = Dir(<<>>, [p \in Partitions |-> <<>>],
                           <<OrderById(UnionQuery(dir0))>>)
        /\ CpExists(checkpoint_file) /\ CpParses(checkpoint_file)
        /\ CpLoad(checkpoint_file).partition_style = "flat"
        /\ \A o \in Options :
              (IF ~o.has_start /\ o.resume
               THEN CpLoad(checkpoint_file).partition_style
               ELSE StyleOrHive(ExistingStyle)) = "flat"


\* C30 (as claimed): in the hive layout an add_item writes a file into a
\* year/month directory only when the rows buffered for that very group,
\* the new row included, have reached the threshold, so the file it writes
\* holds at least BufferSize rows; and the rows buffered for the other groups
\* stay buffered.
C30_GroupsFlushIndependently ==
    [][(partition_style = "hive" /\ partition_style' = "hive" /\ last_op' = "add") =>
          \A p \in Partitions :
              hive'[p] # hive[p] =>
                 /\ Len(hive'[p][Len(hive'[p])]) >= BufferSize
                 /\ \A q \in Partitions \ {p} :
                       /\ hive'[q] = hive[q]
                       /\ RowsOf(buffer', q) = RowsOf(buffer, q)]_vars


\* C31: in the hive layout a flush (by flush_all, or by the add_item that
\* fills the buffer) puts the flushed rows of each year/month, in order, in
\* one new file of that year/month directory and leaves the files that were
\* there as they were; rows without year and month go to no file, so every
\* file of a directory holds rows of its own year/month only.  In the flat
\* layout flush_all writes every buffered row, dated or not, to the new chunk.
Dated(rows, p) == SelectSeq(rows, LAMBDA r : r.ym = p)

HiveFlushOf(rows) ==
    \A p \in Partitions :
        hive' [p] = IF Dated(rows, p) = <<>> THEN hive[p]
                    ELSE Append(hive[p], Dated(rows, p))

C31_UndatedRowsDroppedInHive ==
    /\ [](\A p \in Partitions : \A k \in 1..Len(hive[p]) :
             \A n \in 1..Len(hive[p][k]) : hive[p][k][n].ym = p)
    /\ [][(partition_style = "hive" /\ partition_style' = "hive" /\ last_op' = "flush") =>
              HiveFlushOf(buffer) /\ buffer' = <<>> /\ chunks' = chunks]_vars
    /\ [][(partition_style = "hive" /\ partition_style' = "hive" /\ last_op' = "add") =>
              \/ hive' = hive /\ chunks' = chunks /\ Len(buffer') = Len(buffer) + 1
              \/ /\ \E r \in [id : Ids, ym : Partitions \cup {""}] :
                       r.ym = RemoteYm(r.id) /\ HiveFlushOf(Append(buffer, r))
                 /\ buffer' = <<>> /\ chunks' = chunks]_vars
    /\ [][(partition_style = "flat" /\ partition_style' = "flat" /\ last_op' = "flush"
             /\ buffer # <<>>) =>
              chunks' = Append(chunks, buffer) /\ hive' = hive]_vars

\* an add_item filled the buffer of a hive writer and fewer rows than the
\* threshold are in files: a row of the flush had no year and month
C31_Witness ==
    /\ partition_style = "hive"
    /\ last_op = "add"
    /\ buffer = <<>>
    /\ chunks = <<>>
    /\ RowCount(hive["2024-01"]) = 1
    /\ RowCount(hive["2024-02"]) = 0


\* C32: the writer's buffer is empty whenever the batch loop is at its head
\* (a batch is about to start, or the loop is about to end) and when the run
\* has ended, normally or after a cancellation; and the rows in the buffer at
\* any time are rows of the batch in progress.
C32_BufferEmptyBetweenBatches ==
    /\ pc \in {"loop", "after_loop", "exit_ok", "exit_0"} => buffer = <<>>
    /\ IdsOfRows(buffer) \subseteq BatchIds

\* a second batch is about to start after a first one whose only row was
\* below the threshold and was flushed by flush_all
C32_Witness ==
    /\ pc = "loop"
    /\ current_pos <= max_id
    /\ ~shutdown_event
    /\ last_op = "flush"
    /\ partition_style = "flat"
    /\ Len(chunks) > Len(StartWriter(file0).chunks)
    /\ Len(chunks[Len(chunks)]) < BufferSize
    /\ buffer = <<>>


\* the run left its batch loop with the HTTP status error of a task
RaisedInBatch == InBatchLoop /\ pc \in {"raise", "exit_error"}

\* C33 (as claimed): when a task of batch k raised an HTTP status error, the
\* writer was not called for batch k (its last call, if any, is the flush_all
\* of batch k-1, and its buffer is empty), the checkpoint was not updated or
\* saved for batch k (the file is as the run found it, or holds the
\* checkpoint of batch k-1), and once the fetcher has been left no task of
\* the batch is still running: its exit cancelled them.
C33_RaisedErrorAbortsBatch ==
    RaisedInBatch =>
        /\ last_op # "add"
        /\ buffer = <<>>
        /\ checkpoint.last_fetched_id < current_pos \/ current_pos = 0
        /\ checkpoint_file = IF last_op = "none" THEN file0 ELSE CpDump(checkpoint)
        /\ pc = "exit_error" => \A i \in Ids : ~Live(task[i])


\* the start id of the run, from its command line and the file it found
RunStart ==
    IF opt.has_start
    THEN IF opt.start >= 0 THEN opt.start
         ELSE IF api_max_id + opt.start > 1 THEN api_max_id + opt.start ELSE 1
    ELSE IF opt.resume /\ CpExists(file0) THEN file0.cp.last_fetched_id + 1
    ELSE 1

\* C34: an undisturbed run ends.  Each of its batches begins when exactly the
\* ids from the start id up to the batch's first id have been requested, and
\* is the non-empty range from that id to min(first id + batch_size, max + 1);
\* no id is requested a second time; and a run whose start id is not above the
\* target max has, at its end, requested exactly the ids start..max and left
\* a checkpoint file whose last_fetched_id is the target max.
C34_BatchesCoverRangeOnce ==
    /\ <>(pc = "closed")
    /\ [][(pc = "loop" /\ pc' = "iter") =>
              /\ requested = {i \in Ids : RunStart <= i /\ i < current_pos}
              /\ batch_end' = (IF current_pos + opt.batch_size < max_id + 1
                               THEN current_pos + opt.batch_size ELSE max_id + 1)
              /\ batch_end' > current_pos
              /\ pending_tasks' = {i \in Ids : current_pos <= i /\ i < batch_end'}]_vars
    /\ [][\A i \in Ids : (task'[i].pc = "req" /\ task[i].pc # "req") =>
              i \notin requested]_vars
    /\ []((pc = "closed" /\ RunStart <= max_id) =>
              /\ requested = {i \in Ids : RunStart <= i /\ i <= max_id}
              /\ CpParses(checkpoint_file)
              /\ checkpoint_file.cp.last_fetched_id = max_id)

\* a run of three batches of one id has ended
C34_Witness ==
    /\ pc = "closed"
    /\ opt.batch_size = 1
    /\ RunStart = MaxItemId - 2
    /\ max_id = MaxItemId
    /\ requested = {MaxItemId - 2, MaxItemId - 1, MaxItemId}
    /\ checkpoint_file.cp.last_fetched_id = MaxItemId


\* the rows in the files of the archive
RowsOnDisk == RowCount(chunks) + RowCount(hive["2024-01"]) + RowCount(hive["2024-02"])

\* C35: every save of the checkpoint leaves in the file an items_written that
\* has grown, since the run began, by the number of rows the run has added to
\* the files of the archive.  (A save is complete when the step after the
\* write goes back to the loop or on to the exit.)
C35_ItemsWrittenEqualsRowsOnDisk ==
    [][LET w == StartWriter(file0)
           RowsAtStart ==
               RowCount(w.chunks) + RowCount(w.hive["2024-01"])
                   + RowCount(w.hive["2024-02"])
           ItemsAtStart ==
               IF ~opt.has_start /\ opt.resume /\ CpExists(file0) /\ CpParses(file0)
               THEN CpLoad(file0).items_written
               ELSE 0
       IN  (pc = "save_write" /\ pc' \in {"loop", "aexit"}) =>
               checkpoint_file'.cp.items_written - ItemsAtStart
                   = RowsOnDisk' - RowsAtStart]_vars


\* C36: a run with --start begins with the record (last_fetched_id 0, both
\* counters 0, the target max, the layout of the record it found or "hive"),
\* whatever the record it found says.  Each of its saves replaces the file by
\* the run's own record: the layout and the target max of that record, a
\* last_fetched_id that is 0 or an id of the range of the run (the last id of
\* the batch, after the save of a batch) and counters of no more than the ids
\* the run requested; so a run that completes no batch leaves last_fetched_id
\* 0 in the file, also when the file it found had a higher one.
C36_StartOverrideUsesFreshRecord ==
    /\ [][(opt.has_start /\ pc = "resolve" /\ pc' = "loop") =>
              /\ checkpoint' = [last_fetched_id |-> 0, max_item_id |-> max_id,
                                items_fetched |-> 0, items_written |-> 0,
                                partition_style |->
                                    IF CpExists(file0)
                                    THEN CpLoad(file0).partition_style ELSE "hive"]
              /\ current_pos' = RunStart]_vars
    /\ [][(opt.has_start /\ pc = "save_write" /\ pc' \in {"loop", "aexit"}) =>
              /\ checkpoint_file' = FileJson(checkpoint, TRUE)
              /\ checkpoint_file'.cp.partition_style =
                     (IF CpExists(file0) THEN CpLoad(file0).partition_style ELSE "hive")
              /\ checkpoint_file'.cp.max_item_id = max_id
              /\ checkpoint_file'.cp.items_fetched <= Cardinality(requested)
              /\ checkpoint_file'.cp.items_written = checkpoint_file'.cp.items_fetched
              /\ \/ checkpoint_file'.cp.last_fetched_id = 0
                 \/ /\ RunStart <= checkpoint_file'.cp.last_fetched_id
                    /\ checkpoint_file'.cp.last_fetched_id <= max_id
              /\ pc' = "loop" => checkpoint_file'.cp.last_fetched_id = current_pos' - 1
              /\ current_pos = RunStart /\ phase = "final" =>
                     checkpoint_file'.cp.last_fetched_id = 0]_vars

\* a run with --start over an empty range has replaced a record with a higher
\* last_fetched_id by one with last_fetched_id 0
C36_Witness ==
    /\ opt.has_start
    /\ pc = "closed"
    /\ RunStart > max_id
    /\ CpExists(file0) /\ CpParses(file0)
    /\ file0.cp.last_fetched_id = MaxItemId
    /\ file0.cp.partition_style = "flat"
    /\ checkpoint_file = FileJson([last_fetched_id |-> 0, max_item_id |-> max_id,
                                   items_fetched |-> 0, items_written |-> 0,
                                   partition_style |-> "flat"], TRUE)


\* C37: the fetches inside the gate and the free permits always add up to the
\* concurrency of the run, however the fetches end; and, the event loop being
\* fair, a task that has not passed the gate yet is let in, and a task that
\* has not ended yet ends with an item, with absent or with a raised error,
\* unless the fetcher is shut down.
C37_PermitsConservedAndGranted ==
    /\ [](Cardinality({i \in Ids : HoldsPermit(task[i])}) + semaphore = opt.concurrency)
    /\ \A i \in Ids :
          /\ (task[i].pc \in {"new", "gate"}) ~> (HoldsPermit(task[i]) \/ IsShutdown)
          /\ Live(task[i]) ~>
                (task[i].pc \in {"done_item", "done_none", "raised"} \/ IsShutdown)

\* one fetch has ended with a raised error, one by cancellation and one with
\* an item, and every permit is free again
C37_Witness ==
    /\ \E i \in Ids : task[i].pc = "raised"
    /\ \E i \in Ids : task[i].pc = "cancelled"
    /\ \E i \in Ids : task[i].pc = "done_item"
    /\ semaphore = opt.concurrency
    /\ opt.concurrency = MaxConcurrency


\* C38: the active-connection count of the progress display is, in every
\* state, the number of fetches inside the gate: each fetch that raised the
\* count on its way in lowers it once on its way out, whether it ends with an
\* item, with absent, with an error, at shutdown or by cancellation.  So the
\* count stays between 0 and the concurrency of the run and is 0 whenever no
\* fetch holds a permit.
C38_ConnectionEventsBalanced ==
    LET Holders == {i \in Ids : HoldsPermit(task[i])}
    IN  /\ active_connections = Cardinality(Holders)
        /\ 0 <= active_connections /\ active_connections <= opt.concurrency
        /\ Holders = {} => active_connections = 0

\* the count is back at 0 after one fetch ended with a raised error, and
\* another, which had a request out, by cancellation
C38_Witness ==
    /\ active_connections = 0
    /\ opt.concurrency = MaxConcurrency
    /\ \E i \in Ids : task[i].pc = "raised" /\ i \in requested
    /\ \E i \in Ids : task[i].pc = "cancelled" /\ i \in requested


====
